---- MODULE Spec2Model ----
(***************************************************************************)
(* DNO generator (dno_gen.py, dno_gen_optimized.py): the resilient fetch   *)
(* client, the paginated ledger collectors, the assignment resolver, the   *)
(* range condenser and the reconciliation driver.                          *)
(*                                                                         *)
(* A Python str is a sequence of one-character strings, so that split,     *)
(* zfill, replace, len and sorted are computed and not assumed.            *)
(***************************************************************************)
EXTENDS Integers, Sequences, FiniteSets, TLC

\* ------------------------------------------------------------------------
\* Bounds of the model (the program's sizes are given in the comments).
\* ------------------------------------------------------------------------
\* Number of valid three-digit codes, the first ones of the program's
\* enumeration 200, 201, ... (program: 800).
NumCodes == 2
\* Number of numeric blocks 0 .. NumBlocks-1 under a CompositeKey (program: 10).
NumBlocks == 3
\* The condenser's inputs differ from the empty set or from the Universe in at
\* most MaxEdits triples.
MaxEdits == 2
\* Largest input of the condenser of which every iteration order is followed.
MaxOrdered == 2
\* Longest ledger (sequence of raw registry records) given to the resolvers.
MaxLedger == 3
\* Largest number of data rows in the output of the bq query.
MaxItgRows == 2
\* Largest number of records the registry holds over all the codes together.
MaxMergeRecords == 2
\* Largest number of records the registry holds for the code of --compare.
MaxCompareLedger == 3
\* Largest number of entries from outside the Universe in a condenser input.
MaxGuardExtras == 1
\* Largest number of records of a ledger of JSON values.
MaxJsonLedger == 2
\* Largest number of usable entries for which every cover of an input of the
\* condenser is enumerated.
MaxCoverEntries == 12
\* Records per page of the bulk query (program: MAX_LIMIT_PER_REQUEST = 10000).
MAX_LIMIT_PER_REQUEST == 2
\* Records per page of the two legacy queries (program: limit = 1000).
LEGACY_LIMIT == 2
\* Records a registry with finite contents serves in one run.
MaxServed == 3
\* Page requests for one collector loop that are followed against a registry
\* that answers every offset with a full page.
MaxPages == 3
\* Fetches of one run that fail after their retries.
MaxFailures == 2
\* Number of calls of make_api_request_with_retry in one run of the fetch client.
MaxCalls == 3
\* Calls per rate-limiter batch (program: BATCH_SIZE = 100).
BATCH_SIZE == 2

\* ------------------------------------------------------------------------
\* Program constants. Times are in milliseconds.
\* ------------------------------------------------------------------------
MAX_RETRIES == 3
INITIAL_RETRY_DELAY == 1000
MAX_RETRY_DELAY == 30000
API_CALL_DELAY == 10
BATCH_DELAY == 100

\* ------------------------------------------------------------------------
\* Python str helpers
\* ------------------------------------------------------------------------
DigitChars == <<"0", "1", "2", "3", "4", "5", "6", "7", "8", "9">>

\* Code point of a character (the order sorted() uses on str).
Ord(c) ==
  CASE c = "-" -> 45
    [] c = "0" -> 48 [] c = "1" -> 49 [] c = "2" -> 50 [] c = "3" -> 51
    [] c = "4" -> 52 [] c = "5" -> 53 [] c = "6" -> 54 [] c = "7" -> 55
    [] c = "8" -> 56 [] c = "9" -> 57
    [] c = "A" -> 65 [] c = "B" -> 66

\* a < b on str: lexicographic by code point.
RECURSIVE StrLess(_, _)
StrLess(a, b) ==
  IF a = <<>> THEN b # <<>>
  ELSE IF b = <<>> THEN FALSE
  ELSE IF Head(a) = Head(b) THEN StrLess(Tail(a), Tail(b))
  ELSE Ord(Head(a)) < Ord(Head(b))

\* sorted(S) for a set (or dict key view) of str.
RECURSIVE sorted(_)
sorted(S) ==
  IF S = {} THEN <<>>
  ELSE LET m == CHOOSE x \in S : \A y \in S \ {x} : StrLess(x, y)
       IN  <<m>> \o sorted(S \ {m})

\* str(i) for an int i >= 0.
RECURSIVE str(_)
str(i) == IF i < 10 THEN <<DigitChars[i + 1]>>
          ELSE str(i \div 10) \o <<DigitChars[(i % 10) + 1]>>

RECURSIVE SplitAcc(_, _, _)
SplitAcc(s, cur, acc) ==
  IF s = <<>> THEN Append(acc, cur)
  ELSE IF Head(s) = "-" THEN SplitAcc(Tail(s), <<>>, Append(acc, cur))
  ELSE SplitAcc(Tail(s), Append(cur, Head(s)), acc)

\* s.split('-')
split(s) == SplitAcc(s, <<>>, <<>>)

\* s.zfill(w) for an unsigned s
RECURSIVE zfill(_, _)
zfill(s, w) == IF Len(s) >= w THEN s ELSE zfill(<<"0">> \o s, w)

\* bool(s) of a str
Truthy(s) == s # <<>>

\* f"{a}-{b}"
Dash(a, b) == a \o <<"-">> \o b

\* Concatenation of a sequence of sequences.
RECURSIVE Flatten(_)
Flatten(ss) == IF ss = <<>> THEN <<>> ELSE Head(ss) \o Flatten(Tail(ss))

Range(s) == {s[i] : i \in DOMAIN s}

\* ------------------------------------------------------------------------
\* Key generation
\* ------------------------------------------------------------------------
\* The i-th code (i >= 0) in the order of the three nested loops
\* n in 2..9, x1 in 0..9, x2 in 0..9: f"{n}{x1}{x2}".
CodeAt(i) == str(2 + (i \div 100)) \o str((i \div 10) % 10) \o str(i % 10)

\* generate_all_possible_npa(): the list of codes, ascending.
generate_all_possible_npa == [i \in 1..NumCodes |-> CodeAt(i - 1)]

\* range(0, 10) of the block loops.
BlockRange == 0..(NumBlocks - 1)

\* generate_all_possible_npa_nxx_block(): the Universe.
generate_all_possible_npa_nxx_block ==
  {Dash(Dash(generate_all_possible_npa[i], generate_all_possible_npa[j]), str(b)) :
     i \in 1..NumCodes, j \in 1..NumCodes, b \in BlockRange}

\* ------------------------------------------------------------------------
\* Range condenser
\* ------------------------------------------------------------------------
\* The grouping npa_data[npa][nxx] = set of blocks built by the first loop.
BuildNpaData(unassigned) ==
  LET parsed == {split(e) : e \in unassigned}
  IN  [npa \in {p[1] : p \in parsed} |->
         [nxx \in {p[2] : p \in {q \in parsed : q[1] = npa}} |->
            {p[3] : p \in {q \in parsed : q[1] = npa /\ q[2] = nxx}}]]

\* The roll-up test without the check of the blocks.
NxxPresentOnly(nxxmap, nxx) == nxx \in DOMAIN nxxmap

\* The test the nested NXX loops apply to one generated nxx before they break.
NxxFullyUnassigned(nxxmap, nxx) ==
  /\ nxx \in DOMAIN nxxmap
  /\ Cardinality(nxxmap[nxx]) = NumBlocks
  /\ \A b \in BlockRange : str(b) \in nxxmap[nxx]

\* A roll-up test that one fully unassigned nxx satisfies.
SomeNxxUnassigned(nxxmap) ==
  \E i \in 1..NumCodes : NxxFullyUnassigned(nxxmap, generate_all_possible_npa[i])

\* all_nxx_unassigned after the nested loops.
AllNxxUnassigned(nxxmap) ==
  \A i \in 1..NumCodes : NxxFullyUnassigned(nxxmap, generate_all_possible_npa[i])

\* expected_nxx_count after the nested loops: they count the generated nxx up
\* to and including the first one that fails the test.
ExpectedNxxCount(nxxmap) ==
  LET failing == {i \in 1..NumCodes :
                    ~NxxFullyUnassigned(nxxmap, generate_all_possible_npa[i])}
  IN  IF failing = {} THEN NumCodes
      ELSE CHOOSE i \in failing : \A j \in failing : i <= j

\* An else branch that lists every block on its own.
CondenseNxxFlat(npa, nxx, blocks) ==
  LET bs == sorted(blocks)
  IN  [k \in 1..Len(bs) |-> Dash(Dash(npa, nxx), bs[k])]

\* A roll-up of an nxx that lacks one block.
CondenseNxxNearFull(npa, nxx, blocks) ==
  IF Cardinality(blocks) >= NumBlocks - 1
  THEN <<Dash(npa, nxx)>>
  ELSE LET bs == sorted(blocks)
       IN  [k \in 1..Len(bs) |-> Dash(Dash(npa, nxx), bs[k])]

\* The entries appended for one nxx in the else branch.
CondenseNxx(npa, nxx, blocks) ==
  IF Cardinality(blocks) = NumBlocks
  THEN IF \A i \in BlockRange : str(i) \in blocks
       THEN <<Dash(npa, nxx)>>
       ELSE LET bs == sorted(blocks)
            IN  [k \in 1..Len(bs) |-> Dash(Dash(npa, nxx), bs[k])]
  ELSE LET bs == sorted(blocks)
       IN  [k \in 1..Len(bs) |-> Dash(Dash(npa, nxx), bs[k])]

\* An else branch whose loop leaves out the first nxx.
CondenseNpaSkipFirst(npa, nxxmap) ==
  IF AllNxxUnassigned(nxxmap) /\ Cardinality(DOMAIN nxxmap) = ExpectedNxxCount(nxxmap)
  THEN <<npa>>
  ELSE LET ns == sorted(DOMAIN nxxmap)
       IN  Flatten([k \in 1..(Len(ns) - 1) |->
                      CondenseNxx(npa, ns[k + 1], nxxmap[ns[k + 1]])])

\* A roll-up that does not compare the number of SubKeys of the grouping.
CondenseNpaUncounted(npa, nxxmap) ==
  IF AllNxxUnassigned(nxxmap)
  THEN <<npa>>
  ELSE LET ns == sorted(DOMAIN nxxmap)
       IN  Flatten([k \in 1..Len(ns) |-> CondenseNxx(npa, ns[k], nxxmap[ns[k]])])

\* The entries appended for one npa.
CondenseNpa(npa, nxxmap) ==
  IF AllNxxUnassigned(nxxmap) /\ Cardinality(DOMAIN nxxmap) = ExpectedNxxCount(nxxmap)
  THEN <<npa>>
  ELSE LET ns == sorted(DOMAIN nxxmap)
       IN  Flatten([k \in 1..Len(ns) |-> CondenseNxx(npa, ns[k], nxxmap[ns[k]])])

\* The second loop (lines 776-827) on a grouping npa_data.
CondenseData(npa_data) ==
  LET ks == sorted(DOMAIN npa_data)
  IN  Flatten([k \in 1..Len(ks) |-> CondenseNpa(ks[k], npa_data[ks[k]])])

condense_unassigned(unassigned) == CondenseData(BuildNpaData(unassigned))

\* A loop body that assigns the block set instead of adding to it.
FoldNpaEntryOverwrite(npa_data, entry) ==
  LET parts == split(entry)
      inner == IF parts[1] \in DOMAIN npa_data THEN npa_data[parts[1]] ELSE <<>>
      grown == [x \in DOMAIN inner \cup {parts[2]} |->
                  IF x = parts[2] THEN {parts[3]} ELSE inner[x]]
  IN  [k \in DOMAIN npa_data \cup {parts[1]} |->
         IF k = parts[1] THEN grown ELSE npa_data[k]]

\* The body of the first loop (lines 763-772) for one entry of the set.
FoldNpaEntry(npa_data, entry) ==
  LET parts == split(entry)
      inner == IF parts[1] \in DOMAIN npa_data THEN npa_data[parts[1]] ELSE <<>>
      cur == IF parts[2] \in DOMAIN inner THEN inner[parts[2]] ELSE {}
      grown == [x \in DOMAIN inner \cup {parts[2]} |->
                  IF x = parts[2] THEN cur \cup {parts[3]} ELSE inner[x]]
  IN  [k \in DOMAIN npa_data \cup {parts[1]} |->
         IF k = parts[1] THEN grown ELSE npa_data[k]]

\* The first loop when the set hands out its entries in the given order.
RECURSIVE FoldNpaData(_, _)
FoldNpaData(npa_data, order) ==
  IF order = <<>> THEN npa_data
  ELSE FoldNpaData(FoldNpaEntry(npa_data, Head(order)), Tail(order))

\* The orders in which a set can hand out its entries.
RECURSIVE IterationOrders(_)
IterationOrders(S) ==
  IF S = {} THEN {<<>>}
  ELSE UNION {{<<x>> \o rest : rest \in IterationOrders(S \ {x})} : x \in S}

\* ------------------------------------------------------------------------
\* Assignment resolver
\* ------------------------------------------------------------------------
\* A raw registry record is [npa, nxx, block_id]; a field the record lacks is
\* the empty str, the default of record.get(field, '').
LetterA == <<"A">>

\* The state a CompositeKey gets when it is first seen.
NewBlockState == [numeric |-> {}, has_a |-> FALSE]

\* A fold in which a record of the block A forgets the numeric blocks seen.
FoldBlockForgetting(m, key, block_id) ==
  LET cur == IF key \in DOMAIN m THEN m[key] ELSE NewBlockState
      new == IF block_id = LetterA
             THEN [numeric |-> {}, has_a |-> TRUE]
             ELSE [cur EXCEPT !.numeric = @ \cup {block_id}]
  IN  [k \in DOMAIN m \cup {key} |-> IF k = key THEN new ELSE m[k]]

\* Folding one (key, block_id) into the map npa_nxx_blocks.
FoldBlock(m, key, block_id) ==
  LET cur == IF key \in DOMAIN m THEN m[key] ELSE NewBlockState
      new == IF block_id = LetterA
             THEN [cur EXCEPT !.has_a = TRUE]
             ELSE [cur EXCEPT !.numeric = @ \cup {block_id}]
  IN  [k \in DOMAIN m \cup {key} |-> IF k = key THEN new ELSE m[k]]

\* The body of the record loop with the fields keyed as they arrive.
FoldBulkRecordUnpadded(m, record) ==
  IF Truthy(record.npa) /\ Truthy(record.nxx) /\ Truthy(record.block_id)
  THEN FoldBlock(m, Dash(record.npa, record.nxx), record.block_id)
  ELSE m

\* The body of the record loop of fetch_assigned_for_npa_bulk.
FoldBulkRecord(m, record) ==
  LET npa_val == zfill(record.npa, 3)
      nxx_val == zfill(record.nxx, 3)
      block_id == record.block_id
  IN  IF Truthy(npa_val) /\ Truthy(nxx_val) /\ Truthy(block_id)
      THEN FoldBlock(m, Dash(npa_val, nxx_val), block_id)
      ELSE m

RECURSIVE FoldBulk(_, _)
FoldBulk(m, records) ==
  IF records = <<>> THEN m
  ELSE FoldBulk(FoldBulkRecord(m, Head(records)), Tail(records))

\* The A-block rule without its test of the numeric blocks.
AssignedForKeyAlways(key, info) ==
  IF info.has_a
  THEN {Dash(key, str(i)) : i \in BlockRange}
  ELSE {Dash(key, b) : b \in info.numeric}

\* The A-block rule applied to one CompositeKey.
AssignedForKey(key, info) ==
  IF info.has_a /\ Cardinality(info.numeric) = 0
  THEN {Dash(key, str(i)) : i \in BlockRange}
  ELSE {Dash(key, b) : b \in info.numeric}

\* The part of fetch_assigned_for_npa_bulk after its page loop: what it returns.
ResolveBulk(all_records) ==
  LET m == FoldBulk(<<>>, all_records)
  IN  [assigned |-> UNION {AssignedForKey(k, m[k]) : k \in DOMAIN m},
       blocks |-> m]

\* The record loop of fetch_all_blocks_for_npa_optimized applied to one page.
RECURSIVE NormalizePage(_)
NormalizePage(data) ==
  IF data = <<>> THEN <<>>
  ELSE LET record == Head(data)
           npa_val == zfill(record.npa, 3)
           nxx_val == zfill(record.nxx, 3)
           block_id == record.block_id
       IN  (IF Truthy(npa_val) /\ Truthy(nxx_val) /\ Truthy(block_id)
            THEN <<[npa |-> npa_val, nxx |-> nxx_val, block_id |-> block_id,
                    full |-> Dash(Dash(npa_val, nxx_val), block_id)]>>
            ELSE <<>>)
           \o NormalizePage(Tail(data))

RECURSIVE FoldOptimized(_, _)
FoldOptimized(m, records) ==
  IF records = <<>> THEN m
  ELSE FoldOptimized(FoldBlock(m, Dash(Head(records).npa, Head(records).nxx),
                               Head(records).block_id),
                     Tail(records))

\* process_npa_records(records)
process_npa_records(records) ==
  LET m == FoldOptimized(<<>>, records)
  IN  [assigned |-> UNION {AssignedForKey(k, m[k]) : k \in DOMAIN m},
       blocks |-> m]

\* ------------------------------------------------------------------------
\* State
\* ------------------------------------------------------------------------
VARIABLES
  \* --- condenser
  cpc,             \* condenser harness: "input" before the call, "done" after
  unassigned_set,  \* the argument of condense_unassigned
  condensed,       \* its return value
  \* --- fetch client (make_api_request_with_retry, apply_rate_limiting)
  rpc,             \* "idle", "loop" (inside the for loop), "returned", "raised"
  attempt,         \* loop variable of the retry loop
  retry_delay,     \* pre-jitter delay
  last_exception,  \* outcome kind of the last failed attempt, "None" if none
  ret,             \* value returned, or the exception raised
  outcomes,        \* history: outcome of every HTTP request of this call
  backoff,         \* history: [delay, slept] of every backoff sleep of this call
  delay_hist,      \* history: the values retry_delay has had in this call
  rate_limit,      \* DNO_RATE_LIMIT is set to a true value
  request_counter, \* global request_counter
  since_last,      \* time.time() - last_request_time, saturated at API_CALL_DELAY
  last_request_time, \* 0 as at line 61, or k: the clock value the k-th call stored
  since_request,   \* history: time since the last HTTP request was sent, saturated
  min_separation,  \* history: least time between two successive HTTP requests, saturated
  limiter_slept,   \* history: the sleeps of apply_rate_limiting in this call
  ncalls,          \* calls of make_api_request_with_retry started so far
  \* --- resolvers on their own
  res_pc,          \* "input" while a resolver is still to be applied
  raw_ledger,      \* the raw records of one TopLevelKey
  bulk_result,     \* what fetch_assigned_for_npa_bulk returns for them
  opt_result,      \* what process_npa_records returns for them
  \* --- reconciliation driver (main) and the collectors it calls
  dpc,             \* "main" (head of the NPA loop), "bulk", "legacy1", "legacy2"
                   \* (inside a collector's page loop), "confirm", "upload", "exit"
  use_bulk,        \* USE_BULK_FETCH
  args,            \* [upload, yes] of the command line, once main consults them
  registry,        \* "finite", or "endless": every offset gets a full page
  npa_idx,         \* i of main: index of the NPA being processed (0 before the loop)
  offset,          \* offset of the running page loop
  page,            \* page of the bulk loop
  all_records,     \* all_records of the bulk collector
  nxx_combinations,\* nxx_combinations of fetch_nxx_combinations_for_npa
  todo,            \* the NPA-NXX keys the legacy step 2 still has to fetch
  blocks,          \* blocks of the running fetch_blocks_for_npa_nxx
  assigned_for_npa,\* assigned (as a set) of the running or last collector call
  npa_nxx_blocks,  \* npa_nxx_blocks of the running or last collector call
  all_assigned,
  all_npa_nxx_blocks,
  files,           \* output files written
  upload_attempted,
  upload_success,
  upload_cancelled,
  exit_code,       \* -1 while the process runs
  reqlog,          \* history: the page requests of the running or last collector call
  pages,           \* history: the data arrays of its successful responses
  served,          \* history: number of records served in this run
  failures,        \* history: the fetches of this run that failed
  called,          \* history: the NPA indexes a collector was called for
  returned,        \* history: the NPA indexes whose collector call returned
  \* --- the writer of unassigned_npa_nxx_x.csv (main, lines 970-1001)
  wpc,             \* "off", "itg" (before line 971), "write", "written"
  itg_rows,        \* the data rows of the bq output: [phone_number, create_date]
  itg_data,        \* itg_data of main
  unassigned_csv,  \* the rows written to unassigned_npa_nxx_x.csv
  invalid_records, \* invalid_records of main
  valid_records,   \* valid_records of main
  \* --- the NPA loop of main on given ledgers
  ledgers,         \* the registry's contents: the ledger of every NPA index
  pending,         \* the NPA indexes the loop has not processed yet
  folded,          \* the number of records the record loop of the resolver has folded
  \* --- the optimized module
  total_api_calls, \* global total_api_calls of dno_gen_optimized
  old_api_calls,   \* old_api_calls of main of dno_gen_optimized (--compare)
  new_api_calls,   \* new_api_calls of main of dno_gen_optimized (--compare)
  old_requests,    \* history: the requests the old approach made in --compare
  \* --- the upload prompt of main
  confirmation,    \* history: the answer to "Proceed with upload? (y/N)", or "none"
  \* --- generate_all_possible_npa
  npas,            \* the list npas
  npa_n,           \* the loop variable n
  npa_x1,          \* the loop variable x1
  npa_x2           \* the loop variable x2

condVars == <<cpc, unassigned_set, condensed>>
retryVars == <<rpc, attempt, retry_delay, last_exception, ret, outcomes, backoff,
               delay_hist, rate_limit, request_counter, since_last, limiter_slept,
               ncalls, last_request_time, since_request, min_separation>>
resVars == <<res_pc, raw_ledger, bulk_result, opt_result>>
driverVars == <<dpc, use_bulk, args, registry, npa_idx, offset, page, all_records,
                nxx_combinations, todo, blocks, assigned_for_npa, npa_nxx_blocks,
                all_assigned, all_npa_nxx_blocks, files, upload_attempted,
                upload_success, upload_cancelled, exit_code, reqlog, pages, served,
                failures, called, returned>>
writerVars == <<wpc, itg_rows, itg_data, unassigned_csv, invalid_records, valid_records>>
mergeVars == <<ledgers, pending, folded>>
compareVars == <<old_api_calls, new_api_calls, old_requests>>
keyVars == <<npas, npa_n, npa_x1, npa_x2>>
auxVars == <<writerVars, mergeVars, total_api_calls, compareVars, confirmation, keyVars>>
vars == <<condVars, retryVars, resVars, driverVars, auxVars>>

\* ------------------------------------------------------------------------
\* Specification of the condenser on its own
\* ------------------------------------------------------------------------
\* All subsets of S with at most k elements.
RECURSIVE SubsetsUpTo(_, _)
SubsetsUpTo(S, k) ==
  IF k = 0 THEN {{}}
  ELSE LET prev == SubsetsUpTo(S, k - 1)
       IN  prev \cup {s \cup {x} : s \in prev, x \in S}

CondenseInputs ==
  LET U == generate_all_possible_npa_nxx_block
      small == SubsetsUpTo(U, MaxEdits)
  IN  small \cup {U \ s : s \in small}

AuxIdle ==
  /\ wpc = "off"
  /\ itg_rows = <<>>
  /\ itg_data = <<>>
  /\ unassigned_csv = <<>>
  /\ invalid_records = <<>>
  /\ valid_records = 0
  /\ ledgers = <<>>
  /\ pending = {}
  /\ folded = 0
  /\ total_api_calls = 0
  /\ old_api_calls = 0
  /\ new_api_calls = 0
  /\ old_requests = 0
  /\ confirmation = "none"
  /\ npas = <<>>
  /\ npa_n = 0
  /\ npa_x1 = 0
  /\ npa_x2 = 0

CondIdle ==
  /\ cpc = "off"
  /\ unassigned_set = {}
  /\ condensed = <<>>

RetryIdle ==
  /\ rpc = "off"
  /\ attempt = 0
  /\ retry_delay = INITIAL_RETRY_DELAY
  /\ last_exception = "None"
  /\ ret = [kind |-> "none"]
  /\ outcomes = <<>>
  /\ backoff = <<>>
  /\ delay_hist = <<>>
  /\ rate_limit = FALSE
  /\ request_counter = 0
  /\ since_last = API_CALL_DELAY
  /\ limiter_slept = <<>>
  /\ ncalls = 0
  /\ last_request_time = 0
  /\ since_request = API_CALL_DELAY
  /\ min_separation = API_CALL_DELAY

Unset == [assigned |-> {}, blocks |-> <<>>, set |-> FALSE]

ResIdle ==
  /\ res_pc = "off"
  /\ raw_ledger = <<>>
  /\ bulk_result = Unset
  /\ opt_result = Unset

DriverIdle ==
  /\ dpc = "off"
  /\ use_bulk = TRUE
  /\ args = [upload |-> FALSE, yes |-> FALSE]
  /\ registry = "finite"
  /\ npa_idx = 0
  /\ offset = 0
  /\ page = 1
  /\ all_records = <<>>
  /\ nxx_combinations = {}
  /\ todo = <<>>
  /\ blocks = NewBlockState
  /\ assigned_for_npa = {}
  /\ npa_nxx_blocks = <<>>
  /\ all_assigned = {}
  /\ all_npa_nxx_blocks = <<>>
  /\ files = {}
  /\ upload_attempted = FALSE
  /\ upload_success = FALSE
  /\ upload_cancelled = FALSE
  /\ exit_code = -1
  /\ reqlog = <<>>
  /\ pages = <<>>
  /\ served = 0
  /\ failures = <<>>
  /\ called = <<>>
  /\ returned = <<>>

InitCondense ==
  /\ cpc = "input"
  /\ unassigned_set \in CondenseInputs
  /\ condensed = <<>>
  /\ RetryIdle
  /\ ResIdle
  /\ DriverIdle
  /\ AuxIdle

Condense ==
  /\ cpc = "input"
  /\ condensed' = condense_unassigned(unassigned_set)
  /\ cpc' = "done"
  /\ UNCHANGED <<unassigned_set, retryVars, resVars, driverVars, auxVars>>

\* condense_unassigned on a set that hands out its entries in an order the
\* program does not control (for entry in unassigned_set).
CondenseIterating ==
  /\ cpc = "input"
  /\ Cardinality(unassigned_set) <= MaxOrdered
  /\ \E order \in IterationOrders(unassigned_set) :
       condensed' = CondenseData(FoldNpaData(<<>>, order))
  /\ cpc' = "done"
  /\ UNCHANGED <<unassigned_set, retryVars, resVars, driverVars, auxVars>>

\* The reading of a condensed sequence: a bare NPA stands for every triple
\* under it, an NPA-NXX for its blocks, an NPA-NXX-X for itself.
ExpandEntry(e) ==
  LET p == split(e)
      codes == generate_all_possible_npa
  IN  IF Len(p) = 1
      THEN Flatten([j \in 1..NumCodes |->
                      [b \in 1..NumBlocks |-> Dash(Dash(p[1], codes[j]), str(b - 1))]])
      ELSE IF Len(p) = 2
      THEN [b \in 1..NumBlocks |-> Dash(e, str(b - 1))]
      ELSE <<e>>

Expand(entries) == Flatten([k \in 1..Len(entries) |-> ExpandEntry(entries[k])])

\* A consumer expands the condensed sequence and condenses the result again.
Recondense ==
  /\ cpc = "done"
  /\ condensed' = condense_unassigned(Range(Expand(condensed)))
  /\ cpc' = "redone"
  /\ UNCHANGED <<unassigned_set, retryVars, resVars, driverVars, auxVars>>

NextCondense ==
  \/ Condense
  \/ CondenseIterating
  \/ Recondense

SpecCondense == InitCondense /\ [][NextCondense]_vars

\* ------------------------------------------------------------------------
\* Fetch client: make_api_request_with_retry and apply_rate_limiting
\* ------------------------------------------------------------------------
Min(a, b) == IF a < b THEN a ELSE b

\* What one HTTP attempt can end in. "timeout", "connection", "http" and
\* "http429" are caught by the first except clause (URLError, socket.timeout,
\* socket.error), "json" by the second (json.JSONDecodeError); "other" is an
\* exception neither clause names (e.g. UnicodeDecodeError from decode).
UrlErrors == {"timeout", "connection", "http", "http429"}

\* What json.loads can return: an object, or None for the JSON text null.
Bodies == {"object", "None"}

\* Duration of one HTTP round trip or of the pause between two calls.
Elapsed == {0, API_CALL_DELAY \div 2, API_CALL_DELAY}

Saturate(t) == Min(t, API_CALL_DELAY)

\* for attempt in range(MAX_RETRIES): the loop body runs for this value.
LoopRuns(a) == a < MAX_RETRIES

\* Off by one: the last failed attempt sleeps instead of raising.
RetriesLeftOffByOne(a) == a < MAX_RETRIES

\* if attempt < MAX_RETRIES - 1
RetriesLeft(a) == a < MAX_RETRIES - 1

\* Jitter of up to 20% of the delay.
JitterWide(d) == {0, d \div 5}

\* random.uniform(0, retry_delay * 0.1)
Jitter(d) == {0, d \div 20, d \div 10}

\* retry_delay = min(retry_delay * 2, MAX_RETRY_DELAY)
Doubled(d) == Min(d * 2, MAX_RETRY_DELAY)

\* Growth by the factor 2 after every sleep.
GrownTwice(d) == Min(d * 2, MAX_RETRY_DELAY)

\* retry_delay = min(retry_delay * 1.5, MAX_RETRY_DELAY)
Grown(d) == Min((d * 3) \div 2, MAX_RETRY_DELAY)

\* A limiter that does not read DNO_RATE_LIMIT.
LimitedAlways == attempt = 0

\* A limiter that is applied before every attempt.
LimitedEveryAttempt == rate_limit

\* apply_rate_limiting() is called on the first attempt only.
Limited == attempt = 0 /\ rate_limit

\* The sleeps of apply_rate_limiting, given the counter after its increment.
LimiterSleeps(counter) ==
  (IF since_last < API_CALL_DELAY
   THEN <<[kind |-> "gap", t |-> API_CALL_DELAY - since_last]>> ELSE <<>>)
  \o (IF counter % BATCH_SIZE = 0
      THEN <<[kind |-> "batch", t |-> BATCH_DELAY]>> ELSE <<>>)

\* The time a sequence of sleeps takes.
RECURSIVE SleepTotal(_)
SleepTotal(sleeps) ==
  IF sleeps = <<>> THEN 0 ELSE Head(sleeps).t + SleepTotal(Tail(sleeps))

\* apply_rate_limiting() followed by the HTTP request, which ends in outcome o
\* with parsed body b and is followed by a sleep of t.
Request(o, b, e, t) ==
  /\ request_counter' = IF Limited THEN request_counter + 1 ELSE request_counter
  /\ limiter_slept' = IF Limited THEN limiter_slept \o LimiterSleeps(request_counter + 1)
                      ELSE limiter_slept
  /\ since_last' = Saturate((IF Limited THEN 0 ELSE since_last) + e + t)
  /\ last_request_time' = IF Limited THEN ncalls ELSE last_request_time
  /\ LET slept == IF Limited THEN SleepTotal(LimiterSleeps(request_counter + 1)) ELSE 0
     IN  min_separation' = Min(min_separation, Saturate(since_request + slept))
  /\ since_request' = Saturate(e + t)
  /\ outcomes' = Append(outcomes, [kind |-> o, body |-> b])
  /\ UNCHANGED <<rate_limit, ncalls>>

\* The end of one loop iteration that did not return or raise: the loop goes
\* on, or it is exhausted and the function returns None (line 179).
Continue ==
  /\ attempt' = attempt + 1
  /\ IF LoopRuns(attempt + 1)
     THEN rpc' = "loop" /\ UNCHANGED ret
     ELSE rpc' = "returned" /\ ret' = [kind |-> "return", value |-> "None"]

\* A caller starts make_api_request_with_retry (lines 122-123).
Call ==
  /\ rpc \in {"idle", "returned", "raised"}
  /\ ncalls < MaxCalls
  /\ ncalls' = ncalls + 1
  /\ rpc' = "loop"
  /\ attempt' = 0
  /\ retry_delay' = INITIAL_RETRY_DELAY
  /\ delay_hist' = <<INITIAL_RETRY_DELAY>>
  /\ last_exception' = "None"
  /\ ret' = [kind |-> "none"]
  /\ outcomes' = <<>>
  /\ backoff' = <<>>
  /\ limiter_slept' = <<>>
  /\ \E e \in Elapsed :
       /\ since_last' = Saturate(since_last + e)
       /\ since_request' = Saturate(since_request + e)
  /\ UNCHANGED <<rate_limit, request_counter, last_request_time, min_separation,
                 condVars, resVars, driverVars, auxVars>>

\* One iteration whose request succeeds: return json.loads(response_data).
AttemptOk ==
  /\ rpc = "loop" /\ LoopRuns(attempt)
  /\ \E b \in Bodies, e \in Elapsed :
       /\ Request("ok", b, e, 0)
       /\ ret' = [kind |-> "return", value |-> b]
  /\ rpc' = "returned"
  /\ UNCHANGED <<attempt, retry_delay, delay_hist, last_exception, backoff, condVars, resVars, driverVars, auxVars>>

\* One iteration whose request raises URLError, socket.timeout or socket.error.
AttemptUrlError ==
  /\ rpc = "loop" /\ LoopRuns(attempt)
  /\ \E o \in UrlErrors, e \in Elapsed :
       LET d == IF o = "http429" THEN Doubled(retry_delay) ELSE retry_delay
           h == IF o = "http429" THEN Append(delay_hist, d) ELSE delay_hist
       IN  /\ last_exception' = o
           /\ IF RetriesLeft(attempt)
              THEN \E j \in Jitter(d) :
                     /\ Request(o, "-", e, d + j)
                     /\ backoff' = Append(backoff, [delay |-> d, slept |-> d + j])
                     /\ retry_delay' = Grown(d)
                     /\ delay_hist' = Append(h, Grown(d))
                     /\ Continue
              ELSE /\ Request(o, "-", e, 0)
                   /\ retry_delay' = d
                   /\ delay_hist' = h
                   /\ ret' = [kind |-> "raise", exc |-> o]
                   /\ rpc' = "raised"
                   /\ UNCHANGED <<attempt, backoff>>
  /\ UNCHANGED <<condVars, resVars, driverVars, auxVars>>

\* One iteration whose body is not JSON: json.JSONDecodeError.
AttemptJsonError ==
  /\ rpc = "loop" /\ LoopRuns(attempt)
  /\ \E e \in Elapsed :
       IF RetriesLeft(attempt)
       THEN /\ Request("json", "-", e, retry_delay)
            /\ backoff' = Append(backoff, [delay |-> retry_delay, slept |-> retry_delay])
            /\ retry_delay' = Grown(retry_delay)
            /\ delay_hist' = Append(delay_hist, Grown(retry_delay))
            /\ Continue
       ELSE /\ Request("json", "-", e, 0)
            /\ ret' = [kind |-> "raise", exc |-> "json"]
            /\ rpc' = "raised"
            /\ UNCHANGED <<attempt, backoff, retry_delay, delay_hist>>
  /\ UNCHANGED <<last_exception, condVars, resVars, driverVars, auxVars>>

\* One iteration that raises an exception no except clause names: it leaves
\* the function at once.
AttemptOtherError ==
  /\ rpc = "loop" /\ LoopRuns(attempt)
  /\ \E e \in Elapsed : Request("other", "-", e, 0)
  /\ ret' = [kind |-> "raise", exc |-> "other"]
  /\ rpc' = "raised"
  /\ UNCHANGED <<attempt, retry_delay, delay_hist, last_exception, backoff, condVars, resVars, driverVars, auxVars>>

InitRetry ==
  /\ CondIdle
  /\ ResIdle
  /\ DriverIdle
  /\ AuxIdle
  /\ rpc = "idle"
  /\ attempt = 0
  /\ retry_delay = INITIAL_RETRY_DELAY
  /\ last_exception = "None"
  /\ ret = [kind |-> "none"]
  /\ outcomes = <<>>
  /\ backoff = <<>>
  /\ delay_hist = <<>>
  /\ rate_limit \in BOOLEAN
  /\ request_counter = 0
  /\ since_last = API_CALL_DELAY
  /\ limiter_slept = <<>>
  /\ ncalls = 0
  /\ last_request_time = 0
  /\ since_request = API_CALL_DELAY
  /\ min_separation = API_CALL_DELAY

NextRetry ==
  \/ Call
  \/ AttemptOk
  \/ AttemptUrlError
  \/ AttemptJsonError
  \/ AttemptOtherError

SpecRetry == InitRetry /\ [][NextRetry]_vars

\* ------------------------------------------------------------------------
\* Specification of the resolvers on their own
\* ------------------------------------------------------------------------
\* The records the registry returns for the query npa=<first code>.
RawRecords ==
  {[npa |-> generate_all_possible_npa[1], nxx |-> generate_all_possible_npa[j],
    block_id |-> b] :
     j \in 1..NumCodes, b \in {str(i) : i \in BlockRange} \cup {LetterA, <<>>}}

RECURSIVE SeqsUpTo(_, _)
SeqsUpTo(S, n) ==
  IF n = 0 THEN {<<>>}
  ELSE LET prev == SeqsUpTo(S, n - 1)
       IN  prev \cup {Append(q, x) : q \in prev, x \in S}

Returned(r) == [assigned |-> r.assigned, blocks |-> r.blocks, set |-> TRUE]

InitResolve ==
  /\ CondIdle
  /\ RetryIdle
  /\ DriverIdle
  /\ AuxIdle
  /\ res_pc = "input"
  /\ raw_ledger \in SeqsUpTo(RawRecords, MaxLedger)
  /\ bulk_result = Unset
  /\ opt_result = Unset

\* fetch_assigned_for_npa_bulk resolves the ledger it collected.
ResolveLedgerBulk ==
  /\ res_pc = "input"
  /\ ~bulk_result.set
  /\ bulk_result' = Returned(ResolveBulk(raw_ledger))
  /\ UNCHANGED <<res_pc, raw_ledger, opt_result, condVars, retryVars, driverVars, auxVars>>

\* The optimized module normalises the records and process_npa_records resolves them.
ResolveLedgerOptimized ==
  /\ res_pc = "input"
  /\ ~opt_result.set
  /\ opt_result' = Returned(process_npa_records(NormalizePage(raw_ledger)))
  /\ UNCHANGED <<res_pc, raw_ledger, bulk_result, condVars, retryVars, driverVars, auxVars>>

NextResolve == ResolveLedgerBulk \/ ResolveLedgerOptimized

SpecResolve == InitResolve /\ [][NextResolve]_vars

\* ------------------------------------------------------------------------
\* Specification of the resolvers on records as the JSON body carries them
\* ------------------------------------------------------------------------
\* A JSON value of a record: a number [int |-> n] or a string [str |-> s].
JsonInt(n) == [int |-> n]
JsonStr(s) == [str |-> s]

\* str(v) of a JSON value: the decimal digits of a number, a string as it is.
PyStr(v) == IF "int" \in DOMAIN v THEN str(v.int) ELSE v.str

\* The str(record.get(...)) of the record loops, for every record of a page.
StrFields(data) ==
  [i \in DOMAIN data |-> [npa |-> PyStr(data[i].npa), nxx |-> PyStr(data[i].nxx),
                          block_id |-> PyStr(data[i].block_id)]]

\* The records the registry returns for the query npa=<first code>: the code
\* as a number or a string, the nxx 020 in its three forms and the nxx 005 as a
\* number, the block 0 as a number or a string, the block 1 and the block A.
JsonRecords ==
  {[npa |-> n, nxx |-> x, block_id |-> b] :
     n \in {JsonStr(generate_all_possible_npa[1]), JsonInt(200)},
     x \in {JsonInt(20), JsonStr(str(20)), JsonStr(zfill(str(20), 3)), JsonInt(5)},
     b \in {JsonInt(0), JsonStr(str(0)), JsonStr(str(1)), JsonStr(LetterA)}}

InitJson ==
  /\ CondIdle
  /\ RetryIdle
  /\ DriverIdle
  /\ AuxIdle
  /\ res_pc = "json"
  /\ raw_ledger \in SeqsUpTo(JsonRecords, MaxJsonLedger)
  /\ bulk_result = Unset
  /\ opt_result = Unset

\* fetch_assigned_for_npa_bulk resolves the records of the pages it read.
ResolveJsonBulk ==
  /\ res_pc = "json"
  /\ ~bulk_result.set
  /\ bulk_result' = Returned(ResolveBulk(StrFields(raw_ledger)))
  /\ UNCHANGED <<res_pc, raw_ledger, opt_result, condVars, retryVars, driverVars, auxVars>>

\* The optimized module normalises the records of the pages and resolves them.
ResolveJsonOptimized ==
  /\ res_pc = "json"
  /\ ~opt_result.set
  /\ opt_result' = Returned(process_npa_records(NormalizePage(StrFields(raw_ledger))))
  /\ UNCHANGED <<res_pc, raw_ledger, bulk_result, condVars, retryVars, driverVars, auxVars>>

NextJson == ResolveJsonBulk \/ ResolveJsonOptimized

SpecJson == InitJson /\ [][NextJson]_vars

\* ------------------------------------------------------------------------
\* Specification of one TopLevelKey from ledger to condensed list
\* ------------------------------------------------------------------------
\* The SubKeys the registry serves records of: the first and the last code.
ScenarioSubKeys == {generate_all_possible_npa[1], generate_all_possible_npa[NumCodes]}

ScenarioRecords ==
  {[npa |-> generate_all_possible_npa[1], nxx |-> nxx, block_id |-> b] :
     nxx \in ScenarioSubKeys, b \in {str(i) : i \in BlockRange} \cup {LetterA}}

\* The triples of the first code under the SubKeys served.
ScenarioUniverse ==
  {t \in generate_all_possible_npa_nxx_block :
     split(t)[1] = generate_all_possible_npa[1] /\ split(t)[2] \in ScenarioSubKeys}

InitScenario ==
  /\ CondIdle
  /\ RetryIdle
  /\ DriverIdle
  /\ AuxIdle
  /\ res_pc = "input"
  /\ raw_ledger \in SeqsUpTo(ScenarioRecords, MaxLedger)
  /\ bulk_result = Unset
  /\ opt_result = Unset

\* unassigned = all_possible - all_assigned (line 932)
Subtract ==
  /\ cpc = "off"
  /\ bulk_result.set
  /\ unassigned_set' = ScenarioUniverse \ bulk_result.assigned
  /\ cpc' = "input"
  /\ UNCHANGED <<condensed, retryVars, resVars, driverVars, auxVars>>

NextScenario ==
  \/ ResolveLedgerBulk
  \/ Subtract
  \/ Condense

SpecScenario == InitScenario /\ [][NextScenario]_vars

\* ------------------------------------------------------------------------
\* Specification of the writer of unassigned_npa_nxx_x.csv
\* ------------------------------------------------------------------------
\* combo.replace('-', '')
RemoveDashes(s) == SelectSeq(s, LAMBDA c : c # "-")

\* One data row of the bq table after the split at '|' (lines 462-463); the
\* text 5...5 of n characters stands for a phone number, led by first.
PhoneNumber(first, n) == IF n = 0 THEN <<>> ELSE <<first>> \o [k \in 1..(n - 1) |-> "5"]

ItgRows ==
  {[phone_number |-> PhoneNumber("2", n), create_date |-> <<"d">>] : n \in {0, 3, 5, 10, 12}}
  \cup {[phone_number |-> PhoneNumber("1", 11), create_date |-> <<"d">>],
        [phone_number |-> PhoneNumber("2", 10), create_date |-> <<>>]}

\* The body of the row loop of fetch_itg_traceback_data (lines 465-483).
ItgRecord(row) ==
  LET phone_number ==
        IF Truthy(row.phone_number) /\ Head(row.phone_number) = "1"
           /\ Len(row.phone_number) = 11
        THEN Tail(row.phone_number) ELSE row.phone_number
      record == [digits |-> phone_number, src |-> "ITG", created_at |-> row.create_date]
  IN  IF Truthy(row.phone_number) /\ Truthy(row.create_date)
      THEN IF Len(phone_number) < 10 THEN <<record>>
           ELSE IF Len(phone_number) = 10 THEN <<record>>
           ELSE <<>>
      ELSE <<>>

\* fetch_itg_traceback_data(): the records of the rows when bq succeeds, the
\* empty list when it fails or times out.
fetch_itg_traceback_data(rows, ok) ==
  IF ok THEN Flatten([k \in 1..Len(rows) |-> ItgRecord(rows[k])]) ELSE <<>>

\* A validation that accepts every length up to 10.
ValidLengthUpTo(digits) == Len(digits) <= 10

\* A validation that does not know the entries of single blocks.
ValidLengthNoSeven(digits) == Len(digits) \in {3, 6, 10}

\* len(digits) in [3, 6, 7, 10]
ValidLength(digits) == Len(digits) \in {3, 6, 7, 10}

\* One iteration of either write loop (lines 985-1001) on the state
\* [rows, invalid_records, valid_records] of the file.
WriteCandidate(acc, source, digits, src) ==
  IF ValidLength(digits)
  THEN [acc EXCEPT !.rows = Append(@, [digits |-> digits, src |-> src]),
                   !.valid_records = @ + 1]
  ELSE [acc EXCEPT !.invalid_records =
                     Append(@, [source |-> source, digits |-> digits, length |-> Len(digits)])]

RECURSIVE WriteLerg(_, _)
WriteLerg(acc, entries) ==
  IF entries = <<>> THEN acc
  ELSE WriteLerg(WriteCandidate(acc, "LERG", RemoveDashes(Head(entries)), "LERG Unassigned"),
                 Tail(entries))

RECURSIVE WriteItg(_, _)
WriteItg(acc, records) ==
  IF records = <<>> THEN acc
  ELSE WriteItg(WriteCandidate(acc, "ITG", Head(records).digits, Head(records).src),
                Tail(records))

\* The inputs of the condenser that give entries of every level.
WriterInputs ==
  LET U == generate_all_possible_npa_nxx_block
  IN  {{}} \cup {U \ x : x \in SubsetsUpTo(U, 1)}

InitWriter ==
  /\ cpc = "input"
  /\ unassigned_set \in WriterInputs
  /\ condensed = <<>>
  /\ RetryIdle
  /\ ResIdle
  /\ DriverIdle
  /\ wpc = "write"
  /\ itg_rows \in SeqsUpTo(ItgRows, MaxItgRows)
  /\ itg_data = <<>>
  /\ unassigned_csv = <<>>
  /\ invalid_records = <<>>
  /\ valid_records = 0
  /\ ledgers = <<>>
  /\ pending = {}
  /\ folded = 0
  /\ total_api_calls = 0
  /\ old_api_calls = 0
  /\ new_api_calls = 0
  /\ old_requests = 0
  /\ confirmation = "none"
  /\ npas = <<>>
  /\ npa_n = 0
  /\ npa_x1 = 0
  /\ npa_x2 = 0

\* main, lines 970-1001: the ITG records are fetched and the file is written,
\* first the condensed entries, then the ITG records. The timestamp column is
\* left out.
WriteUnassigned ==
  /\ cpc = "done"
  /\ wpc = "write"
  /\ \E ok \in BOOLEAN :
       LET itg == fetch_itg_traceback_data(itg_rows, ok)
           start == [rows |-> <<>>, invalid_records |-> <<>>, valid_records |-> 0]
           end == WriteItg(WriteLerg(start, condensed), itg)
       IN  /\ itg_data' = itg
           /\ unassigned_csv' = end.rows
           /\ invalid_records' = end.invalid_records
           /\ valid_records' = end.valid_records
  /\ wpc' = "written"
  /\ UNCHANGED <<itg_rows, condVars, retryVars, resVars, driverVars, mergeVars,
                 total_api_calls, compareVars, confirmation, keyVars>>

NextWriter ==
  \/ Condense
  \/ WriteUnassigned

SpecWriter == InitWriter /\ [][NextWriter]_vars

\* ------------------------------------------------------------------------
\* Registry (environment of the collectors)
\* ------------------------------------------------------------------------
\* Records the registry can hold for the three queries of one NPA. Nothing
\* makes the registry send only valid keys: one record lacks its nxx. The
\* valid records name the first and the last nxx.
ServedNxx == {generate_all_possible_npa[1], generate_all_possible_npa[NumCodes]}
BulkRecords(npa) ==
  {[npa |-> npa, nxx |-> x, block_id |-> b] : x \in ServedNxx, b \in {str(0), LetterA}}
  \cup {[npa |-> npa, nxx |-> <<>>, block_id |-> str(0)]}
NxxRecords(npa) == {[npa |-> npa, nxx |-> x] : x \in ServedNxx}
BlockRecords == {[block_id |-> b] : b \in {str(0), LetterA}}

\* The data arrays a successful response to one page request can carry. A
\* response without the field data reads as the empty array (.get('data', [])).
RegistryPages(records, limit) ==
  IF registry = "endless"
  THEN {[k \in 1..limit |-> CHOOSE r \in records : TRUE]}
  ELSE SeqsUpTo(records, Min(limit, MaxServed - served))

\* A fetch can give the collector no body: make_api_request_with_retry raised
\* after its retries, or it returned None (on which every collector raises an
\* Exception itself). At most MaxFailures fetches of a run do so.
FetchCanFail == Len(failures) < MaxFailures

\* ------------------------------------------------------------------------
\* Collectors and driver
\* ------------------------------------------------------------------------
cfgVars == <<use_bulk, registry>>
outVars == <<files, upload_attempted, upload_success, upload_cancelled>>
legacyVars == <<nxx_combinations, todo, blocks>>

CurNpa == generate_all_possible_npa[npa_idx]

\* if not data
PageEmpty(data) == data = <<>>

\* A stop rule that also stops on a full page.
ShortPageOrFull(data, limit) == Len(data) <= limit

\* if len(data) < limit
ShortPage(data, limit) == Len(data) < limit

\* A cursor that advances one record too far.
NextOffsetSkipping(off, limit) == off + limit + 1

\* offset += limit
NextOffset(off, limit) == off + limit

\* dict.update
DictUpdate(d, e) ==
  [k \in DOMAIN d \cup DOMAIN e |-> IF k \in DOMAIN e THEN e[k] ELSE d[k]]

\* A merge in which the set of the last call replaces the global set.
ReturnToMainReplacing(assigned, blks) ==
  /\ assigned_for_npa' = assigned
  /\ npa_nxx_blocks' = blks
  /\ all_assigned' = assigned
  /\ all_npa_nxx_blocks' = DictUpdate(all_npa_nxx_blocks, blks)
  /\ returned' = Append(returned, npa_idx)
  /\ dpc' = "main"
  /\ UNCHANGED exit_code

\* The collector call returns (assigned, npa_nxx_blocks) and main merges them
\* (lines 885-899).
ReturnToMain(assigned, blks) ==
  /\ assigned_for_npa' = assigned
  /\ npa_nxx_blocks' = blks
  /\ all_assigned' = all_assigned \cup assigned
  /\ all_npa_nxx_blocks' = DictUpdate(all_npa_nxx_blocks, blks)
  /\ returned' = Append(returned, npa_idx)
  /\ dpc' = "main"
  /\ UNCHANGED exit_code

\* An exception leaves the collector call: the except clause of main
\* (lines 901-916) reports and calls sys.exit(1).
RaiseToMain ==
  /\ dpc' = "exit"
  /\ exit_code' = 1
  /\ UNCHANGED <<assigned_for_npa, npa_nxx_blocks, all_assigned, all_npa_nxx_blocks,
                 returned>>

\* The page loop of a collector goes on with the next request.
StayInCollector ==
  UNCHANGED <<dpc, exit_code, all_assigned, all_npa_nxx_blocks, returned>>

LogFailure ==
  failures' = Append(failures, [npa_idx |-> npa_idx, request |-> Len(reqlog) + 1])

LogPage(data) ==
  /\ pages' = Append(pages, data)
  /\ served' = IF registry = "endless" THEN served ELSE served + Len(data)
  /\ UNCHANGED failures

\* A loop head that calls the next collector while one is still running.
NextNpaOverlapping ==
  /\ dpc \in {"main", "bulk", "legacy1", "legacy2"}
  /\ npa_idx < NumCodes
  /\ npa_idx' = npa_idx + 1
  /\ called' = Append(called, npa_idx + 1)
  /\ dpc' = IF use_bulk THEN "bulk" ELSE "legacy1"
  /\ offset' = 0
  /\ page' = 1
  /\ all_records' = <<>>
  /\ nxx_combinations' = {}
  /\ todo' = <<>>
  /\ blocks' = NewBlockState
  /\ assigned_for_npa' = {}
  /\ npa_nxx_blocks' = <<>>
  /\ reqlog' = <<>>
  /\ pages' = <<>>
  /\ UNCHANGED <<cfgVars, args, outVars, all_assigned, all_npa_nxx_blocks, exit_code, served,
                 failures, returned, condVars, retryVars, resVars, auxVars>>

\* The head of the NPA loop of main calls a collector for the next NPA.
NextNpa ==
  /\ dpc = "main"
  /\ npa_idx < NumCodes
  /\ npa_idx' = npa_idx + 1
  /\ called' = Append(called, npa_idx + 1)
  /\ dpc' = IF use_bulk THEN "bulk" ELSE "legacy1"
  /\ offset' = 0
  /\ page' = 1
  /\ all_records' = <<>>
  /\ nxx_combinations' = {}
  /\ todo' = <<>>
  /\ blocks' = NewBlockState
  /\ assigned_for_npa' = {}
  /\ npa_nxx_blocks' = <<>>
  /\ reqlog' = <<>>
  /\ pages' = <<>>
  /\ UNCHANGED <<cfgVars, args, outVars, all_assigned, all_npa_nxx_blocks, exit_code, served,
                 failures, returned, condVars, retryVars, resVars, auxVars>>

\* fetch_assigned_for_npa_bulk leaves its page loop with these records.
BulkFinish(records) ==
  /\ all_records' = records
  /\ LET resolved == ResolveBulk(records)
     IN  ReturnToMain(resolved.assigned, resolved.blocks)
  /\ UNCHANGED <<offset, page>>

\* A collector that swallows the failure of a fetch and goes on with what it has.
BulkFetchFailedSwallowed == BulkFinish(all_records)

\* fetch_assigned_for_npa_bulk when the fetch of a page gives no body: the
\* exception of the fetch client, or the one raised at line 305, leaves it.
BulkFetchFailed ==
  /\ RaiseToMain
  /\ UNCHANGED <<offset, page, all_records>>

\* One iteration of the page loop of fetch_assigned_for_npa_bulk.
BulkPage ==
  /\ dpc = "bulk"
  /\ registry = "endless" => Len(reqlog) < MaxPages
  /\ reqlog' = Append(reqlog, [endpoint |-> "npa,nxx,block_id", npa |-> CurNpa,
                               nxx |-> <<>>, limit |-> MAX_LIMIT_PER_REQUEST,
                               offset |-> offset])
  /\ \/ /\ FetchCanFail
        /\ LogFailure
        /\ BulkFetchFailed
        /\ UNCHANGED <<pages, served>>
     \/ \E data \in RegistryPages(BulkRecords(CurNpa), MAX_LIMIT_PER_REQUEST) :
          /\ LogPage(data)
          /\ IF PageEmpty(data)
             THEN BulkFinish(all_records)
             ELSE IF ShortPage(data, MAX_LIMIT_PER_REQUEST)
             THEN BulkFinish(all_records \o data)
             ELSE /\ all_records' = all_records \o data
                  /\ offset' = NextOffset(offset, MAX_LIMIT_PER_REQUEST)
                  /\ page' = page + 1
                  /\ StayInCollector
                  /\ UNCHANGED <<assigned_for_npa, npa_nxx_blocks>>
  /\ UNCHANGED <<cfgVars, args, outVars, legacyVars, npa_idx, called, condVars, retryVars,
                 resVars, auxVars>>

\* The record loop of fetch_nxx_combinations_for_npa on one page.
NxxKeysOfPage(data) ==
  {Dash(zfill(data[k].npa, 3), zfill(data[k].nxx, 3)) :
     k \in {j \in DOMAIN data : Truthy(data[j].npa) /\ Truthy(data[j].nxx)}}

\* The record loop of fetch_blocks_for_npa_nxx on one page.
RECURSIVE FoldBlocksLegacy(_, _)
FoldBlocksLegacy(b, data) ==
  IF data = <<>> THEN b
  ELSE LET block_id_val == Head(data).block_id
           nb == IF ~Truthy(block_id_val) THEN b
                 ELSE IF block_id_val = LetterA THEN [b EXCEPT !.has_a = TRUE]
                 ELSE [b EXCEPT !.numeric = @ \cup {block_id_val}]
       IN  FoldBlocksLegacy(nb, Tail(data))

\* fetch_nxx_combinations_for_npa returns nxxs; fetch_assigned_for_npa_legacy
\* starts its step 2 on them, or returns at once when there are none.
LegacyStep1Done(nxxs) ==
  LET keys == sorted(nxxs)
  IN  /\ nxx_combinations' = nxxs
      /\ todo' = keys
      /\ blocks' = NewBlockState
      /\ offset' = 0
      /\ IF keys = <<>>
         THEN ReturnToMain({}, <<>>)
         ELSE /\ dpc' = "legacy2"
              /\ UNCHANGED <<exit_code, all_assigned, all_npa_nxx_blocks, returned,
                             assigned_for_npa, npa_nxx_blocks>>

\* One iteration of the page loop of fetch_nxx_combinations_for_npa. An
\* exception of the fetch is caught by the except clause of the loop (lines
\* 233-235), which leaves the loop.
Legacy1Page ==
  /\ dpc = "legacy1"
  /\ registry = "endless" => Len(reqlog) < MaxPages
  /\ reqlog' = Append(reqlog, [endpoint |-> "npa,nxx", npa |-> CurNpa, nxx |-> <<>>,
                               limit |-> LEGACY_LIMIT, offset |-> offset])
  /\ \/ /\ FetchCanFail
        /\ LogFailure
        /\ LegacyStep1Done(nxx_combinations)
        /\ UNCHANGED <<pages, served>>
     \/ \E data \in RegistryPages(NxxRecords(CurNpa), LEGACY_LIMIT) :
          /\ LogPage(data)
          /\ IF PageEmpty(data)
             THEN LegacyStep1Done(nxx_combinations)
             ELSE IF ShortPage(data, LEGACY_LIMIT)
             THEN LegacyStep1Done(nxx_combinations \cup NxxKeysOfPage(data))
             ELSE /\ nxx_combinations' = nxx_combinations \cup NxxKeysOfPage(data)
                  /\ offset' = NextOffset(offset, LEGACY_LIMIT)
                  /\ StayInCollector
                  /\ UNCHANGED <<todo, blocks, assigned_for_npa, npa_nxx_blocks>>
  /\ UNCHANGED <<cfgVars, args, outVars, page, all_records, npa_idx, called, condVars,
                 retryVars, resVars, auxVars>>

\* The A-only pass of fetch_assigned_for_npa_legacy (lines 402-409).
LegacyAOnly(m) ==
  UNION {IF m[k].has_a /\ Cardinality(m[k].numeric) = 0
         THEN {Dash(k, str(b)) : b \in BlockRange} ELSE {} : k \in DOMAIN m}

\* fetch_blocks_for_npa_nxx returns b for the key todo[1]; the step 2 loop of
\* fetch_assigned_for_npa_legacy stores it and goes on or finishes.
LegacyKeyDone(b) ==
  LET key == Head(todo)
      m == DictUpdate(npa_nxx_blocks, [k \in {key} |-> b])
      a == assigned_for_npa \cup {Dash(key, x) : x \in b.numeric}
  IN  /\ todo' = Tail(todo)
      /\ blocks' = NewBlockState
      /\ offset' = 0
      /\ IF Tail(todo) = <<>>
         THEN ReturnToMain(a \cup LegacyAOnly(m), m)
         ELSE /\ npa_nxx_blocks' = m
              /\ assigned_for_npa' = a
              /\ StayInCollector

\* One iteration of the page loop of fetch_blocks_for_npa_nxx. An exception
\* of the fetch is caught by the except clause of the loop (lines 278-280).
Legacy2Page ==
  /\ dpc = "legacy2"
  /\ registry = "endless" => Len(reqlog) < MaxPages
  /\ reqlog' = Append(reqlog, [endpoint |-> "npa,nxx,block_id",
                               npa |-> split(Head(todo))[1],
                               nxx |-> split(Head(todo))[2],
                               limit |-> LEGACY_LIMIT, offset |-> offset])
  /\ \/ /\ FetchCanFail
        /\ LogFailure
        /\ LegacyKeyDone(blocks)
        /\ UNCHANGED <<pages, served>>
     \/ \E data \in RegistryPages(BlockRecords, LEGACY_LIMIT) :
          /\ LogPage(data)
          /\ IF PageEmpty(data)
             THEN LegacyKeyDone(blocks)
             ELSE IF ShortPage(data, LEGACY_LIMIT)
             THEN LegacyKeyDone(FoldBlocksLegacy(blocks, data))
             ELSE /\ blocks' = FoldBlocksLegacy(blocks, data)
                  /\ offset' = NextOffset(offset, LEGACY_LIMIT)
                  /\ StayInCollector
                  /\ UNCHANGED <<todo, assigned_for_npa, npa_nxx_blocks>>
  /\ UNCHANGED <<cfgVars, args, outVars, nxx_combinations, page, all_records, npa_idx, called,
                 condVars, retryVars, resVars, auxVars>>

OutputFiles == {"assigned_npa_nxx_x.csv", "a_block_analysis.csv",
                "unassigned_npa_nxx_x.csv", "lerg_summary.csv"}

\* The flags --upload and --yes are an input of the run; nothing reads them
\* before line 1047, where this action draws them.
\* main after the NPA loop: Universe minus assigned, condensation, the four
\* output files, and the first step of the upload handling (lines 918-1062).
Report ==
  /\ dpc = "main"
  /\ npa_idx = NumCodes
  /\ LET unassigned == generate_all_possible_npa_nxx_block \ all_assigned
     IN  /\ unassigned_set' = unassigned
         /\ condensed' = condense_unassigned(unassigned)
  /\ cpc' = "done"
  /\ files' = OutputFiles
  /\ \E a \in [upload : BOOLEAN, yes : BOOLEAN] :
       /\ args' = a
       /\ IF a.upload
          THEN IF ~a.yes
               THEN dpc' = "confirm" /\ UNCHANGED <<upload_attempted, exit_code>>
               ELSE dpc' = "upload" /\ upload_attempted' = TRUE /\ UNCHANGED exit_code
          ELSE dpc' = "exit" /\ exit_code' = 0 /\ UNCHANGED upload_attempted
  /\ UNCHANGED <<cfgVars, upload_success, upload_cancelled, npa_idx, offset, page,
                 all_records, legacyVars, assigned_for_npa, npa_nxx_blocks, all_assigned,
                 all_npa_nxx_blocks, reqlog, pages, served, failures, called, returned,
                 retryVars, resVars, auxVars>>

\* The operator's answer to "Proceed with upload? (y/N)", stripped and lowered.
Confirm ==
  /\ dpc = "confirm"
  /\ \E answer \in {<<"y">>, <<"y", "e", "s">>, <<"n">>, <<>>} :
       /\ confirmation' = answer
       /\ IF answer \notin {<<"y">>, <<"y", "e", "s">>}
          THEN /\ upload_cancelled' = TRUE
               /\ dpc' = "exit"
               /\ exit_code' = 0
               /\ UNCHANGED upload_attempted
          ELSE /\ upload_attempted' = TRUE
               /\ dpc' = "upload"
               /\ UNCHANGED <<upload_cancelled, exit_code>>
  /\ UNCHANGED <<cfgVars, args, files, upload_success, npa_idx, offset, page, all_records,
                 legacyVars, assigned_for_npa, npa_nxx_blocks, all_assigned,
                 all_npa_nxx_blocks, reqlog, pages, served, failures, called, returned,
                 condVars, retryVars, resVars, writerVars, mergeVars, total_api_calls,
                 compareVars, keyVars>>

\* upload_to_api and the end of main (lines 1064-1095).
Upload ==
  /\ dpc = "upload"
  /\ \E ok \in BOOLEAN :
       /\ upload_success' = ok
       /\ exit_code' = IF ok THEN 0 ELSE 1
  /\ dpc' = "exit"
  /\ UNCHANGED <<cfgVars, args, files, upload_attempted, upload_cancelled, npa_idx, offset,
                 page, all_records, legacyVars, assigned_for_npa, npa_nxx_blocks,
                 all_assigned, all_npa_nxx_blocks, reqlog, pages, served, failures, called,
                 returned, condVars, retryVars, resVars, auxVars>>

Init ==
  /\ CondIdle
  /\ RetryIdle
  /\ ResIdle
  /\ AuxIdle
  /\ dpc = "main"
  /\ use_bulk \in BOOLEAN
  /\ args = [upload |-> FALSE, yes |-> FALSE]
  /\ registry \in {"finite", "endless"}
  /\ npa_idx = 0
  /\ offset = 0
  /\ page = 1
  /\ all_records = <<>>
  /\ nxx_combinations = {}
  /\ todo = <<>>
  /\ blocks = NewBlockState
  /\ assigned_for_npa = {}
  /\ npa_nxx_blocks = <<>>
  /\ all_assigned = {}
  /\ all_npa_nxx_blocks = <<>>
  /\ files = {}
  /\ upload_attempted = FALSE
  /\ upload_success = FALSE
  /\ upload_cancelled = FALSE
  /\ exit_code = -1
  /\ reqlog = <<>>
  /\ pages = <<>>
  /\ served = 0
  /\ failures = <<>>
  /\ called = <<>>
  /\ returned = <<>>

Next ==
  \/ NextNpa
  \/ BulkPage
  \/ Legacy1Page
  \/ Legacy2Page
  \/ Report
  \/ Confirm
  \/ Upload

Spec == Init /\ [][Next]_vars

\* The driver under the default strategy (DNO_BULK_FETCH unset or true). The
\* page loop of the bulk collector is sequential code of a running process: an
\* iteration that can be taken is taken.
InitBulk == Init /\ use_bulk

NextBulk ==
  \/ NextNpa
  \/ BulkPage
  \/ Report
  \/ Confirm
  \/ Upload

SpecBulk == InitBulk /\ [][NextBulk]_vars /\ WF_vars(BulkPage)

\* ------------------------------------------------------------------------
\* The optimized module run with --all
\* ------------------------------------------------------------------------
\* The frame of the actions of the optimized module.
OptFrame ==
  UNCHANGED <<cfgVars, args, outVars, legacyVars, npa_nxx_blocks, all_npa_nxx_blocks,
              condVars, retryVars, resVars, writerVars, mergeVars, compareVars,
              confirmation, keyVars>>

\* The answer to "This will take several hours. Continue? (y/N)" (lines 274-277).
OptConfirm ==
  /\ dpc = "optconfirm"
  /\ \E confirm \in {<<"y">>, <<"Y">>, <<"n">>, <<>>} :
       IF confirm \notin {<<"y">>, <<"Y">>}
       THEN dpc' = "exit" /\ exit_code' = 0
       ELSE dpc' = "optmain" /\ UNCHANGED exit_code
  /\ UNCHANGED <<npa_idx, offset, page, all_records, assigned_for_npa, all_assigned, reqlog,
                 pages, served, failures, called, returned, total_api_calls>>
  /\ OptFrame

\* The head of the NPA loop of main (lines 284-289) calls the collector.
OptNextNpa ==
  /\ dpc = "optmain"
  /\ npa_idx < NumCodes
  /\ npa_idx' = npa_idx + 1
  /\ called' = Append(called, npa_idx + 1)
  /\ dpc' = "optpage"
  /\ offset' = 0
  /\ page' = 1
  /\ all_records' = <<>>
  /\ assigned_for_npa' = {}
  /\ reqlog' = <<>>
  /\ pages' = <<>>
  /\ UNCHANGED <<all_assigned, exit_code, served, failures, returned, total_api_calls>>
  /\ OptFrame

\* fetch_all_blocks_for_npa_optimized leaves its loop and returns all_records;
\* main resolves them and merges the result (lines 132-135 and 290-291).
OptFinish(records) ==
  /\ all_records' = records
  /\ LET assigned == process_npa_records(records).assigned
     IN  /\ assigned_for_npa' = assigned
         /\ all_assigned' = all_assigned \cup assigned
  /\ returned' = Append(returned, npa_idx)
  /\ dpc' = "optmain"
  /\ UNCHANGED <<offset, page>>

\* make_api_request returned None: the loop is left by break (lines 88-90)
\* and the records of the pages read so far are returned.
OptFetchFailed == OptFinish(all_records)

\* One iteration of the page loop of fetch_all_blocks_for_npa_optimized.
OptPage ==
  /\ dpc = "optpage"
  /\ registry = "endless" => Len(reqlog) < MaxPages
  /\ total_api_calls' = total_api_calls + 1
  /\ reqlog' = Append(reqlog, [endpoint |-> "npa,nxx,block_id", npa |-> CurNpa,
                               nxx |-> <<>>, limit |-> MAX_LIMIT_PER_REQUEST,
                               offset |-> offset])
  /\ \/ /\ FetchCanFail
        /\ LogFailure
        /\ OptFetchFailed
        /\ UNCHANGED <<pages, served>>
     \/ \E data \in RegistryPages(BulkRecords(CurNpa), MAX_LIMIT_PER_REQUEST) :
          /\ LogPage(data)
          /\ IF PageEmpty(data)
             THEN OptFinish(all_records)
             ELSE IF ShortPage(data, MAX_LIMIT_PER_REQUEST)
             THEN OptFinish(all_records \o NormalizePage(data))
             ELSE /\ all_records' = all_records \o NormalizePage(data)
                  /\ offset' = NextOffset(offset, MAX_LIMIT_PER_REQUEST)
                  /\ page' = page + 1
                  /\ UNCHANGED <<dpc, assigned_for_npa, all_assigned, returned>>
  /\ UNCHANGED <<npa_idx, called, exit_code>>
  /\ OptFrame

\* main after the loop (lines 300-304): the totals are printed.
OptReport ==
  /\ dpc = "optmain"
  /\ npa_idx = NumCodes
  /\ dpc' = "exit"
  /\ exit_code' = 0
  /\ UNCHANGED <<npa_idx, offset, page, all_records, assigned_for_npa, all_assigned, reqlog,
                 pages, served, failures, called, returned, total_api_calls>>
  /\ OptFrame

InitOptimized ==
  /\ CondIdle
  /\ RetryIdle
  /\ ResIdle
  /\ AuxIdle
  /\ dpc = "optconfirm"
  /\ use_bulk = TRUE
  /\ args = [upload |-> FALSE, yes |-> FALSE]
  /\ registry \in {"finite", "endless"}
  /\ npa_idx = 0
  /\ offset = 0
  /\ page = 1
  /\ all_records = <<>>
  /\ nxx_combinations = {}
  /\ todo = <<>>
  /\ blocks = NewBlockState
  /\ assigned_for_npa = {}
  /\ npa_nxx_blocks = <<>>
  /\ all_assigned = {}
  /\ all_npa_nxx_blocks = <<>>
  /\ files = {}
  /\ upload_attempted = FALSE
  /\ upload_success = FALSE
  /\ upload_cancelled = FALSE
  /\ exit_code = -1
  /\ reqlog = <<>>
  /\ pages = <<>>
  /\ served = 0
  /\ failures = <<>>
  /\ called = <<>>
  /\ returned = <<>>

NextOptimized ==
  \/ OptConfirm
  \/ OptNextNpa
  \/ OptPage
  \/ OptReport

SpecOptimized == InitOptimized /\ [][NextOptimized]_vars

\* ------------------------------------------------------------------------
\* Specification of the loop of main over given ledgers, in any order
\* ------------------------------------------------------------------------
\* The registry's contents are fixed at the start and no fetch fails: the
\* collector of the NPA of index k reads the ledger ledgers[k]. The loop of
\* main takes the codes in the order of generate_all_possible_npa; here it
\* takes them in any order, that order being one of them.

\* The shapes of a record: with its field npa or without it, of the block 0
\* or of the block A. Every record names the first code as its nxx.
RecordShapes == [has_npa : BOOLEAN, block_id : {str(0), LetterA}]

\* The records the registry serves for the query npa=<code of index k>.
ServedRecords(k, shapes) ==
  [i \in DOMAIN shapes |->
     [npa |-> IF shapes[i].has_npa THEN generate_all_possible_npa[k] ELSE <<>>,
      nxx |-> generate_all_possible_npa[1],
      block_id |-> shapes[i].block_id]]

RECURSIVE TotalLen(_, _)
TotalLen(f, k) == IF k = 0 THEN 0 ELSE Len(f[k]) + TotalLen(f, k - 1)

InitMerge ==
  /\ CondIdle
  /\ RetryIdle
  /\ ResIdle
  /\ wpc = "off"
  /\ itg_rows = <<>>
  /\ itg_data = <<>>
  /\ unassigned_csv = <<>>
  /\ invalid_records = <<>>
  /\ valid_records = 0
  /\ total_api_calls = 0
  /\ old_api_calls = 0
  /\ new_api_calls = 0
  /\ old_requests = 0
  /\ confirmation = "none"
  /\ npas = <<>>
  /\ npa_n = 0
  /\ npa_x1 = 0
  /\ npa_x2 = 0
  /\ \E shapes \in [1..NumCodes -> SeqsUpTo(RecordShapes, MaxMergeRecords)] :
       /\ TotalLen(shapes, NumCodes) <= MaxMergeRecords
       /\ ledgers = [k \in 1..NumCodes |-> ServedRecords(k, shapes[k])]
  /\ pending = 1..NumCodes
  /\ folded = 0
  /\ dpc = "main"
  /\ use_bulk = TRUE
  /\ args = [upload |-> FALSE, yes |-> FALSE]
  /\ registry = "finite"
  /\ npa_idx = 0
  /\ offset = 0
  /\ page = 1
  /\ all_records = <<>>
  /\ nxx_combinations = {}
  /\ todo = <<>>
  /\ blocks = NewBlockState
  /\ assigned_for_npa = {}
  /\ npa_nxx_blocks = <<>>
  /\ all_assigned = {}
  /\ all_npa_nxx_blocks = <<>>
  /\ files = {}
  /\ upload_attempted = FALSE
  /\ upload_success = FALSE
  /\ upload_cancelled = FALSE
  /\ exit_code = -1
  /\ reqlog = <<>>
  /\ pages = <<>>
  /\ served = 0
  /\ failures = <<>>
  /\ called = <<>>
  /\ returned = <<>>

MergeFrame ==
  UNCHANGED <<use_bulk, args, registry, offset, page, nxx_combinations, todo, blocks,
              files, upload_attempted, upload_success, upload_cancelled, reqlog, pages,
              served, failures, retryVars, resVars, writerVars, total_api_calls, ledgers,
              compareVars, confirmation, keyVars>>

\* main calls the collector for a code; its page loop has read the ledger of
\* the code and the record loop starts on a new dict (lines 328-331).
MergeCollect ==
  /\ dpc = "main"
  /\ \E k \in pending :
       /\ npa_idx' = k
       /\ all_records' = ledgers[k]
       /\ pending' = pending \ {k}
       /\ called' = Append(called, k)
  /\ npa_nxx_blocks' = <<>>
  /\ folded' = 0
  /\ dpc' = "fold"
  /\ MergeFrame
  /\ UNCHANGED <<assigned_for_npa, all_assigned, all_npa_nxx_blocks, exit_code, returned,
                 condVars>>

\* One pass of the record loop (lines 331-345).
MergeFold ==
  /\ dpc = "fold"
  /\ folded < Len(all_records)
  /\ npa_nxx_blocks' = FoldBulkRecord(npa_nxx_blocks, all_records[folded + 1])
  /\ folded' = folded + 1
  /\ MergeFrame
  /\ UNCHANGED <<dpc, npa_idx, all_records, pending, called, assigned_for_npa, all_assigned,
                 all_npa_nxx_blocks, exit_code, returned, condVars>>

\* The record loop is over: the A-block rule gives the assigned triples
\* (lines 347-361) and main merges what the collector returns (lines 885-899).
MergeReturn ==
  /\ dpc = "fold"
  /\ folded = Len(all_records)
  /\ ReturnToMain(UNION {AssignedForKey(k, npa_nxx_blocks[k]) : k \in DOMAIN npa_nxx_blocks},
                  npa_nxx_blocks)
  /\ MergeFrame
  /\ UNCHANGED <<npa_idx, all_records, pending, called, folded, condVars>>

\* The loop is over: main computes the unassigned triples and condenses them
\* (lines 926-936).
MergeCondense ==
  /\ dpc = "main"
  /\ pending = {}
  /\ unassigned_set' = generate_all_possible_npa_nxx_block \ all_assigned
  /\ condensed' = condense_unassigned(generate_all_possible_npa_nxx_block \ all_assigned)
  /\ cpc' = "done"
  /\ dpc' = "condensed"
  /\ MergeFrame
  /\ UNCHANGED <<npa_idx, all_records, pending, called, folded, assigned_for_npa,
                 npa_nxx_blocks, all_assigned, all_npa_nxx_blocks, exit_code, returned>>

NextMerge == MergeCollect \/ MergeFold \/ MergeReturn \/ MergeCondense

SpecMerge == InitMerge /\ [][NextMerge]_vars

\* ------------------------------------------------------------------------
\* The optimized module run with --compare
\* ------------------------------------------------------------------------
\* The registry's contents for the code compared are fixed at the start and
\* consistent across the endpoints: raw_ledger holds the records of the code,
\* every endpoint serves them in that order, and no fetch fails.

\* The records, out of which the registry's contents are drawn: of the first
\* or the last code as nxx or without the field nxx, of the first or the last
\* block or of the block A.
CompareRecords ==
  {[npa |-> generate_all_possible_npa[1], nxx |-> x, block_id |-> b] :
     x \in {generate_all_possible_npa[1], generate_all_possible_npa[NumCodes], <<>>},
     b \in {str(0), str(NumBlocks - 1), LetterA}}

\* The data array of the response to a request with ?limit=&offset=.
ServedPage(records, limit, off) ==
  SubSeq(records, off + 1, Min(off + limit, Len(records)))

\* A page loop (while True ... offset += limit) over the records an endpoint
\* holds: the records of the pages read and the number of requests made.
RECURSIVE PageLoop(_, _, _, _)
PageLoop(records, limit, off, acc) ==
  LET data == ServedPage(records, limit, off)
      n == acc.requests + 1
  IN  IF PageEmpty(data) THEN [records |-> acc.records, requests |-> n]
      ELSE IF ShortPage(data, limit) THEN [records |-> acc.records \o data, requests |-> n]
      ELSE PageLoop(records, limit, NextOffset(off, limit),
                    [records |-> acc.records \o data, requests |-> n])

NoPages == [records |-> <<>>, requests |-> 0]

\* What the endpoint npa,nxx holds for the code: the two fields of every record.
NxxEndpoint(records) ==
  [i \in DOMAIN records |-> [npa |-> records[i].npa, nxx |-> records[i].nxx]]

\* What the endpoint npa,nxx,block_id holds for npa=<npa>&nxx=<nxx>.
BlockEndpoint(records, npa, nxx) ==
  LET Matches(r) == r.npa = npa /\ r.nxx = nxx
  IN  SelectSeq(records, Matches)

\* fetch_blocks_for_npa_nxx for every key of the step 2 loop, in its order.
RECURSIVE LegacyStep2(_, _, _)
LegacyStep2(records, keys, acc) ==
  IF keys = <<>> THEN acc
  ELSE LET key == Head(keys)
           q == PageLoop(BlockEndpoint(records, split(key)[1], split(key)[2]),
                         LEGACY_LIMIT, 0, NoPages)
           b == FoldBlocksLegacy(NewBlockState, q.records)
       IN  LegacyStep2(records, Tail(keys),
                       [blocks |-> DictUpdate(acc.blocks, [k \in {key} |-> b]),
                        assigned |-> acc.assigned \cup {Dash(key, x) : x \in b.numeric},
                        requests |-> acc.requests + q.requests])

\* fetch_assigned_for_npa_legacy on the registry's records of the code.
LegacyCollect(records) ==
  LET step1 == PageLoop(NxxEndpoint(records), LEGACY_LIMIT, 0, NoPages)
      keys == sorted(NxxKeysOfPage(step1.records))
      step2 == LegacyStep2(records, keys,
                           [blocks |-> <<>>, assigned |-> {}, requests |-> step1.requests])
  IN  [assigned |-> step2.assigned \cup LegacyAOnly(step2.blocks),
       blocks |-> step2.blocks,
       requests |-> step2.requests]

\* fetch_assigned_for_npa_bulk on the registry's records of the code.
BulkCollect(records) ==
  LET q == PageLoop(records, MAX_LIMIT_PER_REQUEST, 0, NoPages)
      r == ResolveBulk(q.records)
  IN  [assigned |-> r.assigned, blocks |-> r.blocks, requests |-> q.requests]

\* fetch_assigned_for_npa: the strategy the configuration selects.
fetch_assigned_for_npa(records) ==
  IF use_bulk THEN BulkCollect(records) ELSE LegacyCollect(records)

InitCompare ==
  /\ CondIdle
  /\ RetryIdle
  /\ wpc = "off"
  /\ itg_rows = <<>>
  /\ itg_data = <<>>
  /\ unassigned_csv = <<>>
  /\ invalid_records = <<>>
  /\ valid_records = 0
  /\ ledgers = <<>>
  /\ pending = {}
  /\ folded = 0
  /\ total_api_calls = 0
  /\ old_api_calls = 0
  /\ new_api_calls = 0
  /\ old_requests = 0
  /\ confirmation = "none"
  /\ npas = <<>>
  /\ npa_n = 0
  /\ npa_x1 = 0
  /\ npa_x2 = 0
  /\ res_pc = "compare"
  /\ raw_ledger \in SeqsUpTo(CompareRecords, MaxCompareLedger)
  /\ bulk_result = Unset
  /\ opt_result = Unset
  /\ dpc = "cmp_old"
  /\ use_bulk \in BOOLEAN
  /\ args = [upload |-> FALSE, yes |-> FALSE]
  /\ registry = "finite"
  /\ npa_idx = 1
  /\ offset = 0
  /\ page = 1
  /\ all_records = <<>>
  /\ nxx_combinations = {}
  /\ todo = <<>>
  /\ blocks = NewBlockState
  /\ assigned_for_npa = {}
  /\ npa_nxx_blocks = <<>>
  /\ all_assigned = {}
  /\ all_npa_nxx_blocks = <<>>
  /\ files = {}
  /\ upload_attempted = FALSE
  /\ upload_success = FALSE
  /\ upload_cancelled = FALSE
  /\ exit_code = -1
  /\ reqlog = <<>>
  /\ pages = <<>>
  /\ served = 0
  /\ failures = <<>>
  /\ called = <<>>
  /\ returned = <<>>

CompareFrame ==
  UNCHANGED <<cfgVars, args, outVars, legacyVars, npa_idx, all_assigned,
              all_npa_nxx_blocks, served, failures, called, returned, res_pc, raw_ledger,
              bulk_result, condVars, retryVars, writerVars, mergeVars, confirmation,
              keyVars>>

\* Lines 240-244: the counter is reset, fetch_assigned_for_npa of dno_gen runs
\* with its own fetch client, which does not touch the counter of the
\* optimized module, and the counter is read.
CompareOld ==
  /\ dpc = "cmp_old"
  /\ LET old == fetch_assigned_for_npa(raw_ledger)
     IN  /\ assigned_for_npa' = old.assigned
         /\ npa_nxx_blocks' = old.blocks
         /\ old_requests' = old.requests
  /\ total_api_calls' = 0
  /\ old_api_calls' = 0
  /\ dpc' = "cmp_new"
  /\ CompareFrame
  /\ UNCHANGED <<offset, page, all_records, reqlog, pages, opt_result, new_api_calls,
                 exit_code>>

\* fetch_all_blocks_for_npa_optimized has left its page loop: process_npa_records
\* resolves the records and the counter is read (lines 250-253).
CompareNewDone(records) ==
  /\ all_records' = records
  /\ opt_result' = Returned(process_npa_records(records))
  /\ new_api_calls' = total_api_calls + 1
  /\ dpc' = "cmp_report"
  /\ UNCHANGED <<offset, page>>

\* One iteration of the page loop of fetch_all_blocks_for_npa_optimized
\* (lines 79-129); make_api_request counts the request (lines 40-41).
CompareNewPage ==
  /\ dpc = "cmp_new"
  /\ total_api_calls' = total_api_calls + 1
  /\ reqlog' = Append(reqlog, [endpoint |-> "npa,nxx,block_id", npa |-> CurNpa,
                               nxx |-> <<>>, limit |-> MAX_LIMIT_PER_REQUEST,
                               offset |-> offset])
  /\ LET data == ServedPage(raw_ledger, MAX_LIMIT_PER_REQUEST, offset)
     IN  /\ pages' = Append(pages, data)
         /\ IF PageEmpty(data)
            THEN CompareNewDone(all_records)
            ELSE IF ShortPage(data, MAX_LIMIT_PER_REQUEST)
            THEN CompareNewDone(all_records \o NormalizePage(data))
            ELSE /\ all_records' = all_records \o NormalizePage(data)
                 /\ offset' = NextOffset(offset, MAX_LIMIT_PER_REQUEST)
                 /\ page' = page + 1
                 /\ UNCHANGED <<dpc, opt_result, new_api_calls>>
  /\ CompareFrame
  /\ UNCHANGED <<assigned_for_npa, npa_nxx_blocks, old_api_calls, old_requests, exit_code>>

\* The report of lines 256-270. Line 263 divides by old_api_calls: with zero the
\* ZeroDivisionError leaves main and the process ends with a traceback, before
\* the data consistency check of lines 264-270 is printed.
CompareReport ==
  /\ dpc = "cmp_report"
  /\ dpc' = "exit"
  /\ exit_code' = IF old_api_calls = 0 THEN 1 ELSE 0
  /\ CompareFrame
  /\ UNCHANGED <<offset, page, all_records, reqlog, pages, opt_result, assigned_for_npa,
                 npa_nxx_blocks, total_api_calls, old_api_calls, new_api_calls,
                 old_requests>>

NextCompare == CompareOld \/ CompareNewPage \/ CompareReport

SpecCompare == InitCompare /\ [][NextCompare]_vars

\* ------------------------------------------------------------------------
\* Specification of generate_all_possible_npa, loop by loop
\* ------------------------------------------------------------------------
\* A loop that starts the first digit at 1.
FirstDigitsFromOne == 1..9

\* range(2, 10) of the loop over the first digit.
FirstDigits == 2..9

\* range(0, 10) of the loops over the second and the third digit.
OtherDigits == 0..9

\* The greatest element of a range.
Last(S) == CHOOSE x \in S : \A y \in S : y <= x

\* The least element of a range.
First(S) == CHOOSE x \in S : \A y \in S : x <= y

InitKeys ==
  /\ CondIdle
  /\ RetryIdle
  /\ ResIdle
  /\ DriverIdle
  /\ wpc = "off"
  /\ itg_rows = <<>>
  /\ itg_data = <<>>
  /\ unassigned_csv = <<>>
  /\ invalid_records = <<>>
  /\ valid_records = 0
  /\ ledgers = <<>>
  /\ pending = {}
  /\ folded = 0
  /\ total_api_calls = 0
  /\ old_api_calls = 0
  /\ new_api_calls = 0
  /\ old_requests = 0
  /\ confirmation = "none"
  /\ npas = <<>>
  /\ npa_n = First(FirstDigits)
  /\ npa_x1 = First(OtherDigits)
  /\ npa_x2 = First(OtherDigits)

\* One pass of the innermost loop body, npas.append(f"{n}{x1}{x2}"), and the
\* step of the three loops to their next values (lines 66-69).
AppendCode ==
  /\ npa_n \in FirstDigits
  /\ npas' = Append(npas, str(npa_n) \o str(npa_x1) \o str(npa_x2))
  /\ IF npa_x2 < Last(OtherDigits)
     THEN npa_x2' = npa_x2 + 1 /\ UNCHANGED <<npa_x1, npa_n>>
     ELSE /\ npa_x2' = First(OtherDigits)
          /\ IF npa_x1 < Last(OtherDigits)
             THEN npa_x1' = npa_x1 + 1 /\ UNCHANGED npa_n
             ELSE npa_x1' = First(OtherDigits) /\ npa_n' = npa_n + 1
  /\ UNCHANGED <<condVars, retryVars, resVars, driverVars, writerVars, mergeVars,
                 total_api_calls, compareVars, confirmation>>

NextKeys == AppendCode

SpecKeys == InitKeys /\ [][NextKeys]_vars

\* ------------------------------------------------------------------------
\* Range condenser on input from outside the Universe
\* ------------------------------------------------------------------------
\* A SubKey no call of generate_all_possible_npa returns: its first digit is 1.
InvalidSubKey == str(100)

\* Well-formed NPA-NXX-X strings that are not in the Universe: the SubKey is
\* not a generated code or the block is not a digit of range(10).
OddEntries ==
  LET codes == Range(generate_all_possible_npa)
      all == {Dash(Dash(npa, nxx), blk) :
                npa \in codes,
                nxx \in codes \cup {InvalidSubKey},
                blk \in {str(b) : b \in BlockRange} \cup {LetterA}}
  IN  all \ generate_all_possible_npa_nxx_block

\* The sets condense_unassigned is called with here: the Universe without at
\* most one triple, and with at most MaxGuardExtras entries from outside it.
GuardInputs ==
  {(generate_all_possible_npa_nxx_block \ missing) \cup extra :
     missing \in SubsetsUpTo(generate_all_possible_npa_nxx_block, 1),
     extra \in SubsetsUpTo(OddEntries, MaxGuardExtras)}

InitGuard ==
  /\ cpc = "input"
  /\ unassigned_set \in GuardInputs
  /\ condensed = <<>>
  /\ RetryIdle
  /\ ResIdle
  /\ DriverIdle
  /\ AuxIdle

NextGuard == Condense

SpecGuard == InitGuard /\ [][NextGuard]_vars

\* ------------------------------------------------------------------------
\* Properties
\* ------------------------------------------------------------------------
\* C1: round-trip law. For every subset U of the Universe, the expansion of
\* condense_unassigned(U) produces every triple of U exactly once and no
\* triple outside U.
RoundTrip ==
  cpc = "done" =>
    LET x == Expand(condensed)
    IN  /\ Range(x) = unassigned_set
        /\ Len(x) = Cardinality(unassigned_set)

\* A rolled-up key together with a partly unassigned one has been condensed.
RoundTripWitness ==
  /\ cpc = "done"
  /\ \E i \in 1..Len(condensed) : Len(split(condensed[i])) = 1
  /\ \E i \in 1..Len(condensed) : Len(split(condensed[i])) = 3

\* C5: retry bound and outcome. One call of make_api_request_with_retry
\* issues at most MAX_RETRIES HTTP requests; it returns the parsed body of the
\* first successful attempt and issues no request after it; when every attempt
\* fails it raises the error of the last attempt (after MAX_RETRIES attempts
\* for the errors it retries); it never returns without a successful attempt.
RetryOutcome ==
  LET n == Len(outcomes)
  IN  /\ n <= MAX_RETRIES
      /\ rpc = "loop" =>
           /\ n = attempt /\ n < MAX_RETRIES
           /\ \A i \in 1..n : outcomes[i].kind # "ok"
      /\ rpc = "returned" =>
           /\ n >= 1 /\ outcomes[n].kind = "ok"
           /\ \A i \in 1..(n - 1) : outcomes[i].kind # "ok"
           /\ ret = [kind |-> "return", value |-> outcomes[n].body]
      /\ rpc = "raised" =>
           /\ n >= 1
           /\ \A i \in 1..n : outcomes[i].kind # "ok"
           /\ ret = [kind |-> "raise", exc |-> outcomes[n].kind]
           /\ n = MAX_RETRIES \/ outcomes[n].kind = "other"

\* All attempts of a call failed, with different errors, and the last one is raised.
RetryOutcomeWitness ==
  /\ rpc = "raised"
  /\ Len(outcomes) = MAX_RETRIES
  /\ outcomes[1].kind = "timeout"
  /\ outcomes[2].kind = "http429"
  /\ ret = [kind |-> "raise", exc |-> "json"]

\* C10: backoff bounds. Within one call the pre-jitter delay starts at
\* INITIAL_RETRY_DELAY, never decreases and never exceeds MAX_RETRY_DELAY, and
\* every backoff sleep lasts at least the current delay and at most 1.1 times it.
BackoffBounds ==
  rpc \in {"loop", "returned", "raised"} =>
    /\ delay_hist[1] = INITIAL_RETRY_DELAY
    /\ retry_delay = delay_hist[Len(delay_hist)]
    /\ \A i \in 1..(Len(delay_hist) - 1) : delay_hist[i] <= delay_hist[i + 1]
    /\ \A i \in DOMAIN delay_hist : delay_hist[i] <= MAX_RETRY_DELAY
    /\ \A i \in DOMAIN backoff :
         /\ backoff[i].delay \in Range(delay_hist)
         /\ backoff[i].delay <= backoff[i].slept
         /\ 10 * backoff[i].slept <= 11 * backoff[i].delay

\* Two backoff sleeps, the first after a rate-limit signal, the second jittered.
BackoffBoundsWitness ==
  /\ rpc = "loop"
  /\ Len(backoff) = 2
  /\ outcomes[1].kind = "http429"
  /\ backoff[2].slept > backoff[2].delay

\* The CompositeKey of a raw record, and what the ledger shows for a key.
KeyOfRecord(r) == Dash(zfill(r.npa, 3), zfill(r.nxx, 3))
RecordsOfKey(k) ==
  {raw_ledger[i] : i \in {j \in DOMAIN raw_ledger : KeyOfRecord(raw_ledger[j]) = k}}
SeenA(k) == \E r \in RecordsOfKey(k) : r.block_id = LetterA
SeenNumeric(k) == {r.block_id : r \in {x \in RecordsOfKey(k) : x.block_id \notin {LetterA, <<>>}}}
AssignedUnder(assigned, k) ==
  {t \in assigned : Len(t) > Len(k) /\ SubSeq(t, 1, Len(k) + 1) = k \o <<"-">>}
InferenceRuleOn(assigned) ==
  \A k \in {KeyOfRecord(raw_ledger[i]) : i \in DOMAIN raw_ledger} :
    /\ (SeenA(k) /\ SeenNumeric(k) = {}) =>
         AssignedUnder(assigned, k) = {Dash(k, str(i)) : i \in BlockRange}
    /\ (SeenA(k) /\ SeenNumeric(k) # {}) =>
         AssignedUnder(assigned, k) = {Dash(k, b) : b \in SeenNumeric(k)}

\* C6: inference rule. For every CompositeKey of a resolved ledger: if the
\* catch-all marker 'A' was seen and no numeric block, exactly the triples with
\* the blocks 0-9 are assigned for it; if 'A' was seen together with a numeric
\* block, exactly the numeric blocks seen are assigned (in the bulk resolver
\* and in process_npa_records).
InferenceRule ==
  /\ bulk_result.set => InferenceRuleOn(bulk_result.assigned)
  /\ opt_result.set => InferenceRuleOn(opt_result.assigned)

\* Both resolvers ran on a ledger with an A-only key and a mixed key.
InferenceRuleWitness ==
  /\ bulk_result.set /\ opt_result.set
  /\ \E k \in DOMAIN bulk_result.blocks : SeenA(k) /\ SeenNumeric(k) = {}
  /\ \E k \in DOMAIN bulk_result.blocks : SeenA(k) /\ SeenNumeric(k) # {}

\* The collector call for the current NPA has returned to main.
CallReturned == npa_idx \in Range(returned)
FullPage(k) == Len(pages[k]) = MAX_LIMIT_PER_REQUEST

\* C2: driver abort. If collecting the ledger of a TopLevelKey fails (the fetch
\* of some page gave no body after the retries), then no later key is fetched,
\* the failed key is not fetched again, no request follows the failed one, none
\* of the four output files is written, no upload is attempted and the process
\* exits with code 1.
DriverAbort ==
  failures # <<>> =>
    /\ dpc = "exit"
    /\ exit_code = 1
    /\ files = {}
    /\ ~upload_attempted
    /\ called = [k \in 1..failures[1].npa_idx |-> k]
    /\ Len(reqlog) = failures[1].request

\* C3: bulk collector failure propagation. With the bulk strategy, when the
\* fetch of any page fails the call does not return: the exception reaches
\* main, no AssignedSet and no block map comes back for the key, however many
\* pages were accumulated before.
BulkFailurePropagates ==
  (use_bulk /\ failures # <<>>) =>
    /\ Len(failures) = 1
    /\ failures[1].npa_idx = npa_idx
    /\ ~CallReturned
    /\ assigned_for_npa = {}
    /\ npa_nxx_blocks = <<>>
    /\ dpc = "exit"
    /\ exit_code = 1

\* The fetch of a later page failed after a full page had been accumulated.
BulkFailurePropagatesWitness ==
  /\ use_bulk
  /\ failures # <<>>
  /\ failures[1].request >= 2
  /\ all_records # <<>>
  /\ dpc = "exit"

\* C4: the legacy strategy honours the collector contract. With the legacy
\* strategy, a failed page request in either step makes the collector call
\* fail, so that the driver aborts, and no AssignedSet comes back for the key.
LegacyFailurePropagates ==
  (~use_bulk /\ failures # <<>>) =>
    /\ \A k \in DOMAIN failures : failures[k].npa_idx \notin Range(returned)
    /\ dpc = "exit"
    /\ exit_code = 1

\* What the bulk collector shows on a short page and on its return.
CollectedAllPages ==
  use_bulk =>
    /\ \A k \in DOMAIN pages : ~FullPage(k) => CallReturned
    /\ CallReturned =>
         /\ Len(pages) >= 1
         /\ Len(reqlog) = Len(pages)
         /\ \A k \in 1..(Len(pages) - 1) : FullPage(k)
         /\ ~FullPage(Len(pages))
         /\ all_records = Flatten(pages)
         /\ assigned_for_npa = ResolveBulk(Flatten(pages)).assigned

\* C7: pagination termination and completeness. With the bulk strategy, when
\* every fetch succeeds and the registry serves k >= 0 full pages and then a
\* short one, the collector leaves its page loop (it terminates), it has left
\* it once the short page is read, it made k + 1 requests, and the ledger it
\* resolves is the concatenation of the k + 1 pages in page order.
PaginationComplete ==
  /\ []CollectedAllPages
  /\ (use_bulk /\ registry = "finite") => [](dpc = "bulk" => <>(dpc # "bulk"))

\* A full page and then a short page with a record were collected.
PaginationCompleteWitness ==
  /\ use_bulk
  /\ CallReturned
  /\ Len(pages) = 2
  /\ Len(pages[2]) = 1
  /\ Len(all_records) = MAX_LIMIT_PER_REQUEST + 1

\* C8: pagination cursor and stop rule. With the bulk strategy the requests
\* for one TopLevelKey have the limit MAX_LIMIT_PER_REQUEST and the offsets 0,
\* P, 2P, ... in this order; the first response whose data array is absent,
\* empty or shorter than P is the last one: no request for the key follows it.
PaginationCursor ==
  use_bulk =>
    /\ \A k \in DOMAIN reqlog :
         /\ reqlog[k].limit = MAX_LIMIT_PER_REQUEST
         /\ reqlog[k].offset = (k - 1) * MAX_LIMIT_PER_REQUEST
         /\ reqlog[k].npa = CurNpa
    /\ \A k \in DOMAIN pages :
         Len(pages[k]) < MAX_LIMIT_PER_REQUEST => (Len(reqlog) = k /\ dpc # "bulk")
    /\ dpc = "bulk" => offset = Len(reqlog) * MAX_LIMIT_PER_REQUEST

\* The collector stopped on an empty page that followed a full one.
PaginationCursorWitness ==
  /\ use_bulk
  /\ dpc = "main"
  /\ Len(reqlog) = 2
  /\ Len(pages) = 2
  /\ pages[2] = <<>>

\* C9: pagination ceiling. The number of page requests of the collector for
\* one TopLevelKey is bounded by a ceiling: after MaxPages requests it is no
\* longer in its page loop, also when every response is a full page.
PaginationCeiling ==
  dpc = "bulk" => Len(reqlog) < MaxPages

\* Consecutive retry sleeps of one call, both below the cap.
SleepPairs ==
  {i \in 1..(Len(backoff) - 1) :
     backoff[i].delay < MAX_RETRY_DELAY /\ backoff[i + 1].delay < MAX_RETRY_DELAY}
GenericFailure(i) == outcomes[i].kind \in {"timeout", "connection", "http"}
RateLimited(i) == outcomes[i].kind = "http429"

\* C11 as stated: backoff growth factors. Below the cap, after consecutive
\* generic failures the pre-jitter delay of a retry sleep is 1.5 times that of
\* the previous retry sleep, and after consecutive HTTP 429 failures it is
\* exactly 2 times that of the previous retry sleep.
GrowthFactorsAsStated ==
  \A i \in SleepPairs :
    /\ (GenericFailure(i) /\ GenericFailure(i + 1)) =>
         2 * backoff[i + 1].delay = 3 * backoff[i].delay
    /\ (RateLimited(i) /\ RateLimited(i + 1)) =>
         backoff[i + 1].delay = 2 * backoff[i].delay

\* C11 amended: below the cap, the first retry sleep has the initial delay,
\* doubled when the failure was an HTTP 429; the delay of every later retry
\* sleep is 1.5 times that of the previous one, doubled once more when the
\* failure before it was an HTTP 429. Consecutive generic failures (and
\* unparsable bodies) give the factor 1.5, consecutive HTTP 429 the factor 3.
GrowthFactors ==
  /\ Len(backoff) >= 1 =>
       backoff[1].delay = IF RateLimited(1) THEN 2 * INITIAL_RETRY_DELAY
                          ELSE INITIAL_RETRY_DELAY
  /\ \A i \in SleepPairs :
       2 * backoff[i + 1].delay =
         (IF RateLimited(i + 1) THEN 6 ELSE 3) * backoff[i].delay

\* Two retry sleeps of one call, each after an HTTP 429.
GrowthFactorsWitness ==
  /\ Len(backoff) = 2
  /\ RateLimited(1) /\ RateLimited(2)
  /\ backoff[2].delay = 3 * backoff[1].delay

\* A protocol error: a body that is not JSON, or JSON that is not an object.
ProtocolError(o) == o.kind = "json" \/ (o.kind = "ok" /\ o.body # "object")

\* C12: protocol errors are retried like network errors. A call whose attempt
\* met a malformed or unexpected body goes on to another attempt, and ends on
\* such a body only when MAX_RETRIES attempts were made.
ProtocolErrorsRetried ==
  (rpc \in {"returned", "raised"} /\ ProtocolError(outcomes[Len(outcomes)])) =>
    Len(outcomes) = MAX_RETRIES

\* C13: exit code. A run of main ends with the exit code 0 exactly when no
\* fetch of any TopLevelKey failed and no upload was requested, attempted and
\* failed; otherwise it ends with the exit code 1.
ExitCodeRule ==
  dpc = "exit" =>
    exit_code = IF failures = <<>> /\ ~(upload_attempted /\ ~upload_success)
                THEN 0 ELSE 1

\* C14: Assigned/Universe invariants. Whatever records the registry returns,
\* after the driver has processed all TopLevelKeys the global AssignedSet is a
\* subset of the Universe, and the UnassignedSet is disjoint from it.
AssignedWithinUniverse ==
  files # {} =>
    /\ all_assigned \subseteq generate_all_possible_npa_nxx_block
    /\ unassigned_set \cap all_assigned = {}

\* The triples of the Universe under a TopLevelKey, and the entries of the
\* condensed sequence under it, in their order.
TriplesUnder(k) == {t \in generate_all_possible_npa_nxx_block : split(t)[1] = k}
EntriesUnder(k) == SelectSeq(condensed, LAMBDA e : split(e)[1] = k)
AllButOne(k, t) ==
  LET p == split(t)
  IN  {Dash(k, generate_all_possible_npa[j]) :
         j \in {i \in 1..NumCodes : generate_all_possible_npa[i] # p[2]}}
      \cup {Dash(Dash(k, p[2]), str(b)) : b \in {c \in BlockRange : str(c) # p[3]}}

\* C15: roll-up boundary. If U holds every triple under a TopLevelKey k, the
\* output holds the bare entry k and no other entry under k; if U holds every
\* triple under k but one, (k, s, b), the output holds no bare k: under k it
\* consists of the NPA-NXX entry of every SubKey but s and of the NPA-NXX-X
\* entries (k, s, b') for every block b' but b.
RollUpBoundary ==
  cpc = "done" =>
    \A i \in 1..NumCodes :
      LET k == generate_all_possible_npa[i]
          missing == TriplesUnder(k) \ unassigned_set
      IN  /\ missing = {} => EntriesUnder(k) = <<k>>
          /\ Cardinality(missing) = 1 =>
               LET t == CHOOSE x \in missing : TRUE
               IN  /\ Range(EntriesUnder(k)) = AllButOne(k, t)
                   /\ Len(EntriesUnder(k)) = Cardinality(AllButOne(k, t))

\* One TopLevelKey is rolled up and another one lacks exactly one triple.
RollUpBoundaryWitness ==
  /\ cpc = "done"
  /\ \E i \in 1..NumCodes :
       TriplesUnder(generate_all_possible_npa[i]) \subseteq unassigned_set
  /\ \E i \in 1..NumCodes :
       Cardinality(TriplesUnder(generate_all_possible_npa[i]) \ unassigned_set) = 1

\* Every entry there is, the entries whose expansion lies within U, and the
\* least number of entries that expand to exactly U, found level by level:
\* under a key one entry if everything under it is in U, else the sum over
\* the keys below it.
AllEntries ==
  Range(generate_all_possible_npa)
  \cup {Dash(generate_all_possible_npa[i], generate_all_possible_npa[j]) :
          i \in 1..NumCodes, j \in 1..NumCodes}
  \cup generate_all_possible_npa_nxx_block
UsableEntries(U) == {e \in AllEntries : Range(ExpandEntry(e)) \subseteq U}
RECURSIVE SumOver(_, _)
SumOver(S, f) ==
  IF S = {} THEN 0
  ELSE LET x == CHOOSE y \in S : TRUE IN f[x] + SumOver(S \ {x}, f)
LeastUnderNxx(U, kn) ==
  LET under == {Dash(kn, str(b)) : b \in BlockRange}
  IN  IF under \subseteq U /\ 1 < Cardinality(under) THEN 1
      ELSE Cardinality(under \cap U)
LeastUnderNpa(U, k) ==
  LET keys == {Dash(k, generate_all_possible_npa[j]) : j \in 1..NumCodes}
      below == SumOver(keys, [kn \in keys |-> LeastUnderNxx(U, kn)])
  IN  IF TriplesUnder(k) \subseteq U /\ 1 < below THEN 1 ELSE below
LeastEntries(U) ==
  SumOver(Range(generate_all_possible_npa),
          [k \in Range(generate_all_possible_npa) |-> LeastUnderNpa(U, k)])

\* C16: minimality. For every U within the Universe, condense_unassigned(U)
\* has the fewest entries of all sequences whose expansion is exactly U; it
\* never holds all the NPA-NXX-X entries of one CompositeKey, and it holds no
\* NPA-NXX or NPA-NXX-X entry under a TopLevelKey all of whose triples are in U.
Minimality ==
  cpc = "done" =>
    /\ Len(condensed) = LeastEntries(unassigned_set)
    /\ Cardinality(UsableEntries(unassigned_set)) <= MaxCoverEntries =>
         \A S \in SUBSET UsableEntries(unassigned_set) :
           UNION {Range(ExpandEntry(e)) : e \in S} = unassigned_set =>
             Len(condensed) <= Cardinality(S)
    /\ \A i, j \in 1..NumCodes :
         LET kn == Dash(generate_all_possible_npa[i], generate_all_possible_npa[j])
         IN  ~({Dash(kn, str(b)) : b \in BlockRange} \subseteq Range(condensed))
    /\ \A i \in 1..NumCodes :
         LET k == generate_all_possible_npa[i]
         IN  TriplesUnder(k) \subseteq unassigned_set =>
               \A n \in DOMAIN condensed :
                 split(condensed[n])[1] = k => condensed[n] = k

\* An input with a rolled-up CompositeKey and single triples, small enough
\* for all its covers to be enumerated.
MinimalityWitness ==
  /\ cpc = "done"
  /\ Cardinality(UsableEntries(unassigned_set)) <= MaxCoverEntries
  /\ Cardinality(unassigned_set) > Len(condensed)
  /\ \E n \in DOMAIN condensed : Len(split(condensed[n])) = 2
  /\ \E n \in DOMAIN condensed : Len(split(condensed[n])) = 3

\* The rank of a code and of a block in ascending numeric order.
CodeRank(c) == CHOOSE i \in 1..NumCodes : generate_all_possible_npa[i] = c
BlockRank(x) == CHOOSE b \in BlockRange : str(b) = x
EntryBefore(e1, e2) ==
  LET p == split(e1)
      q == split(e2)
  IN  \/ CodeRank(p[1]) < CodeRank(q[1])
      \/ /\ p[1] = q[1] /\ Len(p) >= 2 /\ Len(q) >= 2
         /\ \/ CodeRank(p[2]) < CodeRank(q[2])
            \/ /\ p[2] = q[2] /\ Len(p) = 3 /\ Len(q) = 3
               /\ BlockRank(p[3]) < BlockRank(q[3])

\* C17: the condenser is deterministic, total and ordered. For every U within
\* the Universe it ends with a sequence of entries; the sequence is the same
\* in whichever order the set hands out its entries; the entries are in
\* ascending TopLevelKey order, under one TopLevelKey in ascending SubKey
\* order, and under one SubKey in ascending numeric block order.
DeterministicOrdered ==
  cpc = "done" =>
    /\ condensed = condense_unassigned(unassigned_set)
    /\ Range(condensed) \subseteq AllEntries
    /\ \A n \in 1..(Len(condensed) - 1) : EntryBefore(condensed[n], condensed[n + 1])

\* A sequence with neighbours under two TopLevelKeys, under two SubKeys of one
\* TopLevelKey and with two blocks of one SubKey.
DeterministicOrderedWitness ==
  /\ cpc = "done"
  /\ \E n \in 1..(Len(condensed) - 1) :
       split(condensed[n])[1] # split(condensed[n + 1])[1]
  /\ \E n \in 1..(Len(condensed) - 1) :
       /\ Len(split(condensed[n])) >= 2 /\ Len(split(condensed[n + 1])) >= 2
       /\ split(condensed[n])[1] = split(condensed[n + 1])[1]
       /\ split(condensed[n])[2] # split(condensed[n + 1])[2]
  /\ \E n \in 1..(Len(condensed) - 1) :
       /\ Len(split(condensed[n])) = 3 /\ Len(split(condensed[n + 1])) = 3
       /\ split(condensed[n])[1] = split(condensed[n + 1])[1]
       /\ split(condensed[n])[2] = split(condensed[n + 1])[2]

\* C18: idempotence. For every U within the Universe, condensing the
\* expansion of condense_unassigned(U) gives the entry sequence
\* condense_unassigned(U) again.
Idempotence ==
  cpc = "redone" => condensed = condense_unassigned(unassigned_set)

\* The expansion of a sequence with entries of all three levels was condensed again.
IdempotenceWitness ==
  /\ cpc = "redone"
  /\ \E n \in DOMAIN condensed : Len(split(condensed[n])) = 1
  /\ \E n \in DOMAIN condensed : Len(split(condensed[n])) = 2
  /\ \E n \in DOMAIN condensed : Len(split(condensed[n])) = 3

\* The ledger of the scenario: for the first code and the last SubKey, one
\* record of the numeric block m and one record of the block A.
ScenarioLedger(m) ==
  LET rec(b) == [npa |-> generate_all_possible_npa[1],
                 nxx |-> generate_all_possible_npa[NumCodes], block_id |-> b]
  IN  <<rec(str(m)), rec(LetterA)>>
ScenarioKey == Dash(generate_all_possible_npa[1], generate_all_possible_npa[NumCodes])
TriplesOfScenarioKey == SelectSeq(condensed, LAMBDA e : Len(split(e)) = 3 /\ SubSeq(e, 1, Len(ScenarioKey)) = ScenarioKey)
BlocksExcept(m) == SelectSeq([b \in 1..NumBlocks |-> b - 1], LAMBDA b : b # m)

\* C19: the concrete scenario, with the last SubKey in the place of 205 and any
\* numeric block m in the place of 3. For the ledger [(k, s, m), (k, s, 'A')]
\* the resolver yields the AssignedSet {k-s-m} only, and condensing the
\* Universe of k without it yields the NPA-NXX entry of the other SubKey
\* followed by the NPA-NXX-X entries k-s-b for every block b other than m, in
\* ascending block order, and no bare k.
ScenarioOutput ==
  \A m \in BlockRange :
    raw_ledger = ScenarioLedger(m) =>
      /\ bulk_result.set => bulk_result.assigned = {Dash(ScenarioKey, str(m))}
      /\ cpc = "done" =>
           /\ condensed =
                <<Dash(generate_all_possible_npa[1], generate_all_possible_npa[1])>>
                \o [n \in 1..(NumBlocks - 1) |-> Dash(ScenarioKey, str(BlocksExcept(m)[n]))]
           /\ generate_all_possible_npa[1] \notin Range(condensed)

\* The scenario was resolved and condensed for a block with blocks on both sides.
ScenarioOutputWitness ==
  /\ cpc = "done"
  /\ \E m \in BlockRange : 0 < m /\ m < NumBlocks - 1 /\ raw_ledger = ScenarioLedger(m)

\* C20 as stated: in the scenario the condensed output has six NPA-NXX-X
\* entries of the ten blocks under the SubKey, that is, 10 - 6 blocks of the
\* SubKey have no entry.
ScenarioCountAsStated ==
  \A m \in BlockRange :
    (cpc = "done" /\ raw_ledger = ScenarioLedger(m)) =>
      NumBlocks - Len(TriplesOfScenarioKey) = 10 - 6

\* C20: in the scenario the condensed output has an NPA-NXX-X entry for every
\* block of the SubKey but the one assigned block: nine of ten.
ScenarioCount ==
  \A m \in BlockRange :
    (cpc = "done" /\ raw_ledger = ScenarioLedger(m)) =>
      /\ Len(TriplesOfScenarioKey) = NumBlocks - 1
      /\ NumBlocks - Len(TriplesOfScenarioKey) = 1

\* The scenario was condensed and its output has entries of single blocks.
ScenarioCountWitness ==
  /\ cpc = "done"
  /\ raw_ledger \in {ScenarioLedger(m) : m \in BlockRange}
  /\ Len(TriplesOfScenarioKey) > 0

\* C21: the rate limiter is off by default. With DNO_RATE_LIMIT unset,
\* whatever the fetches of the run and their outcomes, apply_rate_limiting has
\* not slept, and request_counter and last_request_time still have their
\* initial values; the sleeps of the run are the backoff sleeps alone.
RateLimiterOff ==
  ~rate_limit =>
    /\ limiter_slept = <<>>
    /\ request_counter = 0
    /\ last_request_time = 0

\* With the limiter off, the last call of the run was retried and has returned.
RateLimiterOffWitness ==
  /\ ~rate_limit
  /\ ncalls = MaxCalls
  /\ rpc = "returned"
  /\ backoff # <<>>

\* The limiter of the running or last call slept its batch pause.
BatchPaused == \E n \in DOMAIN limiter_slept : limiter_slept[n].kind = "batch"

\* Any two successive requests to the registry were at least API_CALL_DELAY apart.
MinimalInterval == min_separation >= API_CALL_DELAY

\* The request of call n is held back by the batch pause exactly when n - 1 is
\* a positive multiple of BATCH_SIZE.
BatchPauseAfterBatch ==
  outcomes # <<>> => (BatchPaused <=> (ncalls > 1 /\ (ncalls - 1) % BATCH_SIZE = 0))

\* C22: the rate limiter when enabled. With DNO_RATE_LIMIT on, any two
\* successive requests to the registry are at least API_CALL_DELAY apart, and
\* the pause of BATCH_DELAY lies after the BATCH_SIZE-th, 2*BATCH_SIZE-th, ...
\* call and after no other.
RateLimiterOn == rate_limit => (MinimalInterval /\ BatchPauseAfterBatch)

\* Every fetch that has sent its first request has been counted.
CounterCountsFetches == outcomes # <<>> => request_counter = ncalls

\* The pauses the limiter slept in the running or last call are those it
\* sleeps for any other value of the counter.
BatchSleeps(sleeps) == SelectSeq(sleeps, LAMBDA x : x.kind = "batch")
CounterNotConsulted ==
  outcomes # <<>> =>
    \A c \in 1..MaxCalls : BatchSleeps(LimiterSleeps(c)) = BatchSleeps(limiter_slept)

\* C23: the call counter. Every fetch of the fetch client increments the
\* process-wide counter, and the value of the counter is used for reporting
\* only: no sleep of the run depends on it.
CallCounter ==
  /\ CounterCountsFetches
  /\ rate_limit => CounterNotConsulted

\* The candidates of the file in the order of the two loops: the condensed
\* entries without their dashes, then the digits of the ITG records.
Candidates ==
  [k \in 1..Len(condensed) |-> RemoveDashes(condensed[k])]
  \o [k \in 1..Len(itg_data) |-> itg_data[k].digits]
AcceptedLengths == {3, 6, 7, 10}

\* C24: validation of output file 3. A candidate (a condensed entry or an ITG
\* record) is written to unassigned_npa_nxx_x.csv if and only if its digit
\* string has 3, 6, 7 or 10 characters; the written rows are the accepted
\* candidates in their order, every other candidate is in invalid_records with
\* its length, the two counts add up to the number of candidates, and the
\* writer ends whatever the candidates are.
OutputValidation ==
  wpc = "written" =>
    /\ [k \in 1..Len(unassigned_csv) |-> unassigned_csv[k].digits]
         = SelectSeq(Candidates, LAMBDA c : Len(c) \in AcceptedLengths)
    /\ [k \in 1..Len(invalid_records) |-> invalid_records[k].digits]
         = SelectSeq(Candidates, LAMBDA c : Len(c) \notin AcceptedLengths)
    /\ \A k \in DOMAIN invalid_records :
         invalid_records[k].length = Len(invalid_records[k].digits)
    /\ valid_records = Len(unassigned_csv)
    /\ valid_records + Len(invalid_records) = Len(Candidates)

\* The file was written with rows of both sources, one of them an 11-digit
\* number with its country code cut off, and a candidate was rejected.
OutputValidationWitness ==
  /\ wpc = "written"
  /\ invalid_records # <<>>
  /\ \E k \in DOMAIN unassigned_csv : unassigned_csv[k].src = "LERG Unassigned"
  /\ \E k \in DOMAIN unassigned_csv :
       unassigned_csv[k].src = "ITG" /\ Head(unassigned_csv[k].digits) = "5"

\* C25: the collector of the optimized module obeys the collector contract.
\* When the request for a page fails, fetch_all_blocks_for_npa_optimized does
\* not return: the failure reaches the --all driver, which adds no records of
\* that key to its AssignedSet and processes no further key.
OptimizedFailurePropagates ==
  failures # <<>> =>
    /\ Len(failures) = 1
    /\ failures[1].npa_idx = npa_idx
    /\ ~CallReturned
    /\ assigned_for_npa = {}
    /\ dpc = "exit"

\* The ledgers with two neighbouring records of l exchanged, and those with one record of
\* l once more at the end. Every ledger of the bound is a ledger of some
\* state, so that the exchanges compose to every order of the records and
\* to a repetition at every place.
Reordered(l) ==
  {[k \in 1..Len(l) |-> IF k = i THEN l[i + 1] ELSE IF k = i + 1 THEN l[i] ELSE l[k]] :
     i \in 1..(Len(l) - 1)}
Repeated(l) == {Append(l, l[i]) : i \in 1..Len(l)}

\* C26: the resolver is independent of order and of duplicates. For any
\* ledger, the AssignedSet and the map of CompositeBlockStates that either
\* resolver returns are those it returns for every permutation of the records
\* and for the ledger with any of its records repeated (stated on the
\* exchanges of two records and on one repetition, for every ledger, once
\* both resolvers have returned for it).
ResolverOrderIndependent ==
  (bulk_result.set /\ opt_result.set) =>
    \A l \in Reordered(raw_ledger) \cup Repeated(raw_ledger) :
      /\ Returned(ResolveBulk(l)) = bulk_result
      /\ Returned(process_npa_records(NormalizePage(l))) = opt_result

\* Both resolvers were applied to a ledger in which the block A of a
\* CompositeKey comes before a numeric block of it and a record is repeated.
ResolverOrderIndependentWitness ==
  /\ bulk_result.set
  /\ opt_result.set
  /\ Len(raw_ledger) = 3
  /\ raw_ledger[1].block_id = LetterA
  /\ raw_ledger[2].nxx = raw_ledger[1].nxx
  /\ raw_ledger[2].block_id \notin {LetterA, <<>>}
  /\ raw_ledger[3] = raw_ledger[1]
  /\ Truthy(raw_ledger[1].nxx)

\* The record with its npa and nxx as three-character strings.
PaddedForm(r) ==
  [npa |-> JsonStr(zfill(PyStr(r.npa), 3)), nxx |-> JsonStr(zfill(PyStr(r.nxx), 3)),
   block_id |-> r.block_id]
PaddedLedger(l) == [i \in DOMAIN l |-> PaddedForm(l[i])]

\* The keys of a map of CompositeBlockStates are two parts of three characters.
KeysPadded(m) == \A k \in DOMAIN m : Len(k) = 7 /\ k[4] = "-"

\* C29: zero-padding before keying. A record whose npa or nxx arrives
\* unpadded, as a number or as a string, is keyed under its three-character
\* form: what each resolver returns for a ledger is what it returns for the
\* ledger with every npa and nxx written padded, and every key is padded.
PaddingBeforeKeying ==
  /\ bulk_result.set =>
       /\ bulk_result = Returned(ResolveBulk(StrFields(PaddedLedger(raw_ledger))))
       /\ KeysPadded(bulk_result.blocks)
  /\ opt_result.set =>
       /\ opt_result =
            Returned(process_npa_records(NormalizePage(StrFields(PaddedLedger(raw_ledger)))))
       /\ KeysPadded(opt_result.blocks)

\* Both resolvers folded the number 20 and the string 020 under one key: the
\* blocks 0 and 1 of the two records are in one CompositeBlockState.
PaddingBeforeKeyingWitness ==
  /\ bulk_result.set
  /\ opt_result.set
  /\ Len(raw_ledger) = 2
  /\ raw_ledger[1].nxx = JsonInt(20)
  /\ raw_ledger[2].nxx = JsonStr(zfill(str(20), 3))
  /\ raw_ledger[1].npa = JsonInt(200)
  /\ \E k \in DOMAIN bulk_result.blocks :
       /\ bulk_result.blocks[k].numeric = {str(0), str(1)}
       /\ k \in DOMAIN opt_result.blocks
       /\ opt_result.blocks[k].numeric = {str(0), str(1)}

\* The global AssignedSet when the codes are taken in the order of
\* generate_all_possible_npa, through the code of index k.
RECURSIVE AssignedInOrder(_)
AssignedInOrder(k) ==
  IF k = 0 THEN {} ELSE AssignedInOrder(k - 1) \cup ResolveBulk(ledgers[k]).assigned

\* C27: TopLevelKey order independence. For fixed registry contents and no
\* fetch failure, the global AssignedSet after all the TopLevelKeys, and with
\* it the UnassignedSet and the condensed output, are those of the order of
\* generate_all_possible_npa, in whatever order the keys were processed.
KeyOrderIndependent ==
  dpc = "condensed" =>
    /\ all_assigned = AssignedInOrder(NumCodes)
    /\ unassigned_set = generate_all_possible_npa_nxx_block \ AssignedInOrder(NumCodes)
    /\ condensed =
         condense_unassigned(generate_all_possible_npa_nxx_block \ AssignedInOrder(NumCodes))

\* The run processed the last code first and two codes gave different,
\* non-empty sets of triples.
KeyOrderIndependentWitness ==
  /\ dpc = "condensed"
  /\ returned[1] = NumCodes
  /\ \E j, k \in 1..NumCodes :
       /\ ResolveBulk(ledgers[j]).assigned # {}
       /\ ResolveBulk(ledgers[k]).assigned # {}
       /\ ResolveBulk(ledgers[j]).assigned # ResolveBulk(ledgers[k]).assigned

\* Nothing recorded in the map m is missing from the map n.
BlocksKept(m, n) ==
  \A k \in DOMAIN m :
    /\ k \in DOMAIN n
    /\ m[k].numeric \subseteq n[k].numeric
    /\ m[k].has_a => n[k].has_a

\* The codes have been taken in the order of generate_all_possible_npa.
ProgramOrder ==
  /\ \A i \in DOMAIN returned : returned[i] = i
  /\ \A i \in DOMAIN called : called[i] = i

\* C28: a CompositeBlockState is monotone over the whole run. No pass of the
\* record loop and no merge of a per-key map into the global map removes a
\* numeric block or clears the catch-all flag of a CompositeKey (stated for
\* the runs that take the codes in the order of the program).
BlockStateMonotone ==
  [][ProgramOrder' =>
       /\ (dpc = "fold" /\ dpc' = "fold") => BlocksKept(npa_nxx_blocks, npa_nxx_blocks')
       /\ BlocksKept(all_npa_nxx_blocks, all_npa_nxx_blocks')]_vars

\* A collector call is running.
InCollector == dpc \in {"bulk", "legacy1", "legacy2"}

\* C30: strictly sequential processing. The collectors are called for the
\* TopLevelKeys in order and one at a time: while a collector runs, every
\* call before it has returned and every request made since it was called is
\* for its own key; outside a collector no call is open.
SequentialProcessing ==
  /\ called = [k \in 1..npa_idx |-> k]
  /\ \A i \in DOMAIN returned : returned[i] = called[i]
  /\ InCollector =>
       /\ Len(called) = Len(returned) + 1
       /\ \A i \in DOMAIN reqlog : reqlog[i].npa = generate_all_possible_npa[Len(returned) + 1]
  /\ dpc = "main" => Len(called) = Len(returned)
  /\ Len(called) <= Len(returned) + 1

\* The collector of the second code has made a request, after the collector
\* of the first code made its requests and returned.
SequentialProcessingWitness ==
  /\ InCollector
  /\ npa_idx = 2
  /\ returned = <<1>>
  /\ reqlog # <<>>

\* C31: strategy equivalence. For registry contents consistent across the
\* endpoints and no fetch failure, the legacy collector, the bulk collector
\* and the optimized collector followed by process_npa_records give the same
\* AssignedSet for the TopLevelKey.
StrategyEquivalence ==
  opt_result.set =>
    /\ assigned_for_npa = opt_result.assigned
    /\ BulkCollect(raw_ledger).assigned = opt_result.assigned
    /\ LegacyCollect(raw_ledger).assigned = opt_result.assigned

\* C39: compare-mode accounting. In --compare the API-call count reported for
\* each of the two approaches is the number of HTTP requests the approach
\* made, and the comparison report is produced without raising.
CompareAccounting ==
  dpc = "exit" =>
    /\ old_api_calls = old_requests
    /\ new_api_calls = Len(reqlog)
    /\ exit_code = 0

\* C32: upload gating and ordering. An upload is attempted only when --upload
\* was given, only after every TopLevelKey was fetched successfully and the
\* four output files were written, and, without --yes, only after the
\* operator answered the prompt with y or yes; no other run attempts one.
UploadGating ==
  upload_attempted =>
    /\ args.upload
    /\ returned = [k \in 1..NumCodes |-> k]
    /\ failures = <<>>
    /\ files = OutputFiles
    /\ ~args.yes => confirmation \in {<<"y">>, <<"y", "e", "s">>}

\* The pauses of the kind gap the limiter slept in the running or last call.
GapSleeps(sleeps) == SelectSeq(sleeps, LAMBDA x : x.kind = "gap")

\* The calls of make_api_request_with_retry that have made their first attempt.
FetchesAttempted == IF rpc = "loop" /\ outcomes = <<>> THEN ncalls - 1 ELSE ncalls

\* C33: the limiter applies once per fetch. With the rate limiter enabled,
\* apply_rate_limiting runs once per call of make_api_request_with_retry, on
\* the first attempt: a call sleeps each pause of the limiter at most once
\* however many attempts it makes, and request_counter is the number of
\* fetch calls, not the number of HTTP requests.
LimiterOncePerFetch ==
  rate_limit =>
    /\ request_counter = FetchesAttempted
    /\ last_request_time = FetchesAttempted
    /\ Len(GapSleeps(limiter_slept)) <= 1
    /\ Len(BatchSleeps(limiter_slept)) <= 1
    /\ outcomes = <<>> => limiter_slept = <<>>

\* With the limiter on, the second call has made MAX_RETRIES requests and the
\* counter stands at two.
LimiterOncePerFetchWitness ==
  /\ rate_limit
  /\ ncalls = 2
  /\ Len(outcomes) = MAX_RETRIES
  /\ request_counter = 2
  /\ limiter_slept # <<>>

\* The three-character strings of a first digit 2-9 and two digits 0-9.
ValidCodes ==
  {<<DigitChars[a + 1], DigitChars[b + 1], DigitChars[c + 1]>> :
     a \in 2..9, b \in 0..9, c \in 0..9}

\* C34: key and Universe generation. generate_all_possible_npa returns the 800
\* three-digit codes whose first digit is 2-9, each once, in ascending order,
\* and generate_all_possible_npa_nxx_block is the product of those codes as
\* TopLevelKey, the same codes as SubKey, and the blocks (here the first
\* NumCodes codes and NumBlocks blocks, NumCodes x NumCodes x NumBlocks triples).
KeyGeneration ==
  npa_n \notin FirstDigits =>
    /\ Len(npas) = 800
    /\ Range(npas) = ValidCodes
    /\ Cardinality(Range(npas)) = Len(npas)
    /\ \A i \in 1..(Len(npas) - 1) : StrLess(npas[i], npas[i + 1])
    /\ \A i \in 1..NumCodes : generate_all_possible_npa[i] = npas[i]
    /\ generate_all_possible_npa_nxx_block =
         {Dash(Dash(npas[i], npas[j]), <<DigitChars[b + 1]>>) :
            i \in 1..NumCodes, j \in 1..NumCodes, b \in 0..(NumBlocks - 1)}
    /\ Cardinality(generate_all_possible_npa_nxx_block) = NumCodes * NumCodes * NumBlocks

\* The three loops have ended, the last code appended being 999.
KeyGenerationWitness ==
  /\ npa_n \notin FirstDigits
  /\ npas # <<>>
  /\ npas[Len(npas)] = <<"9", "9", "9">>

\* The records of a ledger that carry an npa, an nxx and a block_id.
CompleteRecords(l) ==
  SelectSeq(l, LAMBDA r : Truthy(r.npa) /\ Truthy(r.nxx) /\ Truthy(r.block_id))

\* C35: incomplete records are ignored. A registry record that lacks an npa,
\* an nxx or a block_id contributes nothing to the map of CompositeBlockStates
\* or to the AssignedSet, in the bulk resolver and in the optimized collector:
\* each returns what it returns for the complete records alone.
IncompleteIgnored ==
  /\ (dpc # "cmp_old" /\ use_bulk) =>
       /\ assigned_for_npa = ResolveBulk(CompleteRecords(raw_ledger)).assigned
       /\ npa_nxx_blocks = ResolveBulk(CompleteRecords(raw_ledger)).blocks
  /\ opt_result.set =>
       opt_result = Returned(process_npa_records(NormalizePage(CompleteRecords(raw_ledger))))

\* C36: backoff sleeps sit strictly between attempts. In one call of
\* make_api_request_with_retry every attempt that is followed by another is
\* followed by exactly one backoff sleep, there is none before the first
\* attempt, and none after the attempt the call ends on: with n attempts made
\* there are n sleeps while the loop goes on and n - 1 once the call is over.
BackoffBetweenAttempts ==
  rpc \in {"loop", "returned", "raised"} =>
    /\ outcomes = <<>> => backoff = <<>>
    /\ rpc = "loop" => Len(backoff) = Len(outcomes)
    /\ rpc \in {"returned", "raised"} => Len(backoff) = Len(outcomes) - 1
    /\ \A i \in DOMAIN backoff : backoff[i].slept > 0

\* A call under the limiter raised after MAX_RETRIES attempts: the limiter
\* slept before the first, and a backoff sleep followed each but the last.
BackoffBetweenAttemptsWitness ==
  /\ rpc = "raised"
  /\ Len(outcomes) = MAX_RETRIES
  /\ Len(backoff) = MAX_RETRIES - 1
  /\ limiter_slept # <<>>

\* The rows of the file that the LERG loop wrote.
LergRows == SelectSeq(unassigned_csv, LAMBDA row : row.src = "LERG Unassigned")

\* C37: the condenser never produces a rejected row. Each entry of
\* condense_unassigned(U) has, without its dashes, 3, 6 or 7 characters, so
\* the length validation of main rejects no LERG entry and the LERG rows
\* written are as many as the condensed entries.
CondensedNeverRejected ==
  /\ cpc = "done" =>
       \A k \in DOMAIN condensed : Len(RemoveDashes(condensed[k])) \in {3, 6, 7}
  /\ wpc = "written" =>
       /\ \A k \in DOMAIN invalid_records : invalid_records[k].source # "LERG"
       /\ Len(LergRows) = Len(condensed)
       /\ \A k \in DOMAIN condensed : LergRows[k].digits = RemoveDashes(condensed[k])

\* The file was written from entries of the three levels, and an ITG record
\* was rejected.
CondensedNeverRejectedWitness ==
  /\ wpc = "written"
  /\ \A len \in {3, 6, 7} : \E k \in DOMAIN condensed : Len(RemoveDashes(condensed[k])) = len
  /\ invalid_records # <<>>

\* The bare NPA and NPA-NXX entries of condensed stand for exactly what the
\* grouping of the input holds under them.
RollUpsExact ==
  LET npa_data == BuildNpaData(unassigned_set)
      digits == {str(b) : b \in BlockRange}
  IN  \A k \in 1..Len(condensed) :
        LET p == split(condensed[k])
        IN  /\ Len(p) = 1 =>
                /\ DOMAIN npa_data[p[1]] = Range(generate_all_possible_npa)
                /\ \A nxx \in DOMAIN npa_data[p[1]] : npa_data[p[1]][nxx] = digits
            /\ Len(p) = 2 => npa_data[p[1]][p[2]] = digits

\* C38: roll-up guard against input from outside the Universe.
\* condense_unassigned emits a bare TopLevelKey only when the grouping of that
\* key is exactly the valid SubKeys, each with exactly the blocks of
\* range(10); so for a set of well-formed NPA-NXX-X strings, with an invalid
\* SubKey or a block that is not a digit among them, the expansion of the
\* condensed sequence is the set itself.
RollUpGuard ==
  cpc = "done" =>
    /\ RollUpsExact
    /\ Range(Expand(condensed)) = unassigned_set

\* Every valid SubKey of a TopLevelKey is fully unassigned, the set holds an
\* entry with an invalid SubKey under the same key, and the condenser has run.
RollUpGuardWitness ==
  /\ cpc = "done"
  /\ \E e \in unassigned_set :
       /\ split(e)[2] = InvalidSubKey
       /\ AllNxxUnassigned(BuildNpaData(unassigned_set)[split(e)[1]])
====
